---- MODULE Spec2Model ----
(***************************************************************************)
(* Decision layer of the NEP 2020 timetable system: the validation engine  *)
(* (src/validation_engine_prototype.py) that audits a solver's assignment  *)
(* against the data matrix and gates it on five thresholds, and the        *)
(* complexity analyzer and solver selector of the solver engine            *)
(* (src/solver_engine_prototype.py).                                       *)
(*                                                                         *)
(* Numbers.  The engines compute with floats.  The model keeps them exact: *)
(*   weights          in tenths      (10.0 -> 100, 2.5 -> 25)              *)
(*   quality_score    in hundredths  (round(x, 2))                         *)
(*   feasibility      in thousandths (round(x, 3))                         *)
(*   ratios           as fractions [num, den]                              *)
(*   complexity and match scores                                           *)
(*                    as rationals [num, den] in lowest terms              *)
(* On every matrix and profile of the model the floats of the real code    *)
(* are within 1e-9 of the exact scores.  Two match scores that are equal   *)
(* as rationals can differ in the last bit as floats; the code then        *)
(* prefers the larger float where the model sees a tie.                    *)
(*                                                                         *)
(* Specifications.                                                         *)
(*   Spec         _validate_solution, then _analyze_thresholds, on every   *)
(*                assignment of up to MaxEntries entries and each dataset  *)
(*   SpecMetrics  the result record, _calculate_quality_metrics and the    *)
(*                gate on violation lists and entry counts drawn from      *)
(*                bounded sets                                             *)
(*   SpecRerun    one engine validating assignment after assignment        *)
(*   SpecProfile  analyze_complexity on matrices whose collection sizes    *)
(*                are drawn from bounded sets                              *)
(*   SpecSelect   select_best_solver on profiles whose sub-scores are      *)
(*                drawn from a bounded set                                 *)
(*   SpecFormat   validate_and_format on a pair of input files             *)
(*   SpecRefs     _validate_solution and the gate on entries whose ids are *)
(*                known, unknown or empty, one field at a time             *)
(*   SpecAccept   validate_and_format on long assignments, at the edge of  *)
(*                the thresholds                                           *)
(*   SpecReport   validation of well formed and malformed datasets, and    *)
(*                the gate on reports handed in from outside               *)
(*   SpecPipeline solve_timetable stage by stage on a matrix file, and     *)
(*                validate_and_format on its two files                     *)
(*                                                                         *)
(* Inputs are well formed: entries are records of five string ids ("" for  *)
(* an empty or absent id), dataset ids are unique and non-empty.  The one  *)
(* malformed dataset, of SpecReport, has a room capacity that is not a     *)
(* number.                                                                 *)
(***************************************************************************)
EXTENDS Integers, Sequences, FiniteSets, TLC

(***************************************************************************)
(* Bounds of the model.                                                    *)
(***************************************************************************)
\* longest assignment (number of timetable entries) the pipeline specs draw
MaxEntries == 3
\* longest assignment of the re-validation spec
MaxRerunEntries == 2
\* largest entry count of the synthetic reports of SpecMetrics
MaxSessions == 12
\* most violations of one kind in a synthetic report of SpecMetrics
MaxPerKind == 2
\* sizes of the five data collections of an optimization matrix: every size
\* up to MaxCount, and one large size, LargeFactor times 25
MaxCount == 2
LargeFactor == 2
\* most hard and most soft constraints of an optimization matrix
MaxHard == 14
MaxSoft == 1
\* the sub-scores of the profiles handed to the selector are the multiples
\* of 1.5 up to 1.5 * MaxScoreStep
MaxScoreStep == 7

(***************************************************************************)
(* Generic helpers.                                                        *)
(***************************************************************************)
Max(a, b) == IF a >= b THEN a ELSE b

\* all sequences over S of length 0..n
SeqsUpTo(S, n) == UNION {[1..k -> S] : k \in 0..n}

\* a Python dict as a function over the keys present
EmptyDict == [k \in {} |-> <<>>]
DictPut(d, k, v) == [x \in (DOMAIN d) \cup {k} |-> IF x = k THEN v ELSE d[x]]

\* membership in a Python list
InList(x, s) == \E i \in 1..Len(s) : s[i] = x

RECURSIVE SumWeights(_)
SumWeights(vs) == IF vs = <<>> THEN 0 ELSE vs[1].weight + SumWeights(Tail(vs))

\* [v for v in violations if v.is_critical], and its complement: the lengths
CriticalCount(vs) == Cardinality({i \in 1..Len(vs) : vs[i].is_critical})
WarningCount(vs) == Cardinality({i \in 1..Len(vs) : ~vs[i].is_critical})

\* iteration order of a Python set: fixed for a given set, otherwise arbitrary
RECURSIVE SetOrder(_)
SetOrder(S) == IF S = {} THEN <<>>
               ELSE LET x == CHOOSE y \in S : TRUE IN <<x>> \o SetOrder(S \ {x})

\* Python round() of the non-negative rational num/den to an integer:
\* nearest, ties to even
RoundHalfEven(num, den) ==
    LET q == num \div den
        r == num % den
    IN  IF 2 * r < den THEN q
        ELSE IF 2 * r > den THEN q + 1
        ELSE IF q % 2 = 0 THEN q ELSE q + 1

\* fractions for the gate's ratios
Frac(n, d) == [num |-> n, den |-> d]
FracLeq(a, b) == a.num * b.den <= b.num * a.den
FracEq(a, b) == a.num * b.den = b.num * a.den

(***************************************************************************)
(* ValidationEngine.__init__: the violation table and the thresholds.      *)
(***************************************************************************)
violation_definitions ==
    [t \in {"FACULTY_DOUBLE_BOOKING", "ROOM_DOUBLE_BOOKING", "BATCH_TIME_CONFLICT",
            "EQUIPMENT_UNAVAILABLE", "ROOM_CAPACITY_EXCEEDED",
            "FACULTY_COMPETENCY_MISMATCH", "MISSING_COURSE_ASSIGNMENT",
            "INVALID_FACULTY_REFERENCE", "INVALID_ROOM_REFERENCE",
            "INVALID_TIME_SLOT_REFERENCE", "MISSING_BATCH_ASSIGNMENT",
            "FACULTY_PREFERENCE_VIOLATED", "SUBOPTIMAL_ROOM_ASSIGNMENT",
            "NON_PREFERRED_TIME_SLOT", "UNBALANCED_WORKLOAD",
            "LEARNING_OUTCOME_SUBOPTIMAL", "DUPLICATE_ASSIGNMENT"} |->
        CASE t = "FACULTY_DOUBLE_BOOKING"      -> [weight |-> 100, critical |-> TRUE]
          [] t = "ROOM_DOUBLE_BOOKING"         -> [weight |-> 100, critical |-> TRUE]
          [] t = "BATCH_TIME_CONFLICT"         -> [weight |-> 100, critical |-> TRUE]
          [] t = "EQUIPMENT_UNAVAILABLE"       -> [weight |-> 80,  critical |-> TRUE]
          [] t = "ROOM_CAPACITY_EXCEEDED"      -> [weight |-> 90,  critical |-> TRUE]
          [] t = "FACULTY_COMPETENCY_MISMATCH" -> [weight |-> 70,  critical |-> TRUE]
          [] t = "MISSING_COURSE_ASSIGNMENT"   -> [weight |-> 80,  critical |-> TRUE]
          [] t = "INVALID_FACULTY_REFERENCE"   -> [weight |-> 90,  critical |-> TRUE]
          [] t = "INVALID_ROOM_REFERENCE"      -> [weight |-> 90,  critical |-> TRUE]
          [] t = "INVALID_TIME_SLOT_REFERENCE" -> [weight |-> 80,  critical |-> TRUE]
          [] t = "MISSING_BATCH_ASSIGNMENT"    -> [weight |-> 70,  critical |-> TRUE]
          [] t = "FACULTY_PREFERENCE_VIOLATED" -> [weight |-> 30,  critical |-> FALSE]
          [] t = "SUBOPTIMAL_ROOM_ASSIGNMENT"  -> [weight |-> 20,  critical |-> FALSE]
          [] t = "NON_PREFERRED_TIME_SLOT"     -> [weight |-> 25,  critical |-> FALSE]
          [] t = "UNBALANCED_WORKLOAD"         -> [weight |-> 40,  critical |-> FALSE]
          [] t = "LEARNING_OUTCOME_SUBOPTIMAL" -> [weight |-> 35,  critical |-> FALSE]
          [] t = "DUPLICATE_ASSIGNMENT"        -> [weight |-> 60,  critical |-> FALSE]]

\* self.thresholds
CRITICAL_VIOLATION_RATIO == Frac(5, 100)
TOTAL_VIOLATION_RATIO == Frac(15, 100)
\* 25.0, in tenths
WEIGHTED_SCORE_THRESHOLD == 250
\* 0.95, in thousandths
FEASIBILITY_THRESHOLD == 950
\* 7.0, in hundredths
QUALITY_SCORE_THRESHOLD == 700

(***************************************************************************)
(* ValidationViolation.  data_context is kept as the two keys the report   *)
(* reads: entry_index (referential violations; -1 when absent) and         *)
(* conflicting_time_slot (conflict violations; "" when absent).            *)
(***************************************************************************)
\* mutant of ValidationViolation: every violation weighs 10.0
ValidationViolationFlatWeight(type, weight_of, id, etype, idx, slot) ==
    [violation_type |-> type,
     severity |-> "CRITICAL",
     entity_id |-> id,
     entity_type |-> etype,
     weight |-> 100,
     is_critical |-> TRUE,
     entry_index |-> idx,
     conflicting_time_slot |-> slot]

\* mutant of ValidationViolation: only the kinds of weight 9.0 and more are
\* built as critical
ValidationViolationHeavyOnly(type, weight_of, id, etype, idx, slot) ==
    [violation_type |-> type,
     severity |-> "CRITICAL",
     entity_id |-> id,
     entity_type |-> etype,
     weight |-> violation_definitions[weight_of].weight,
     is_critical |-> violation_definitions[weight_of].weight >= 90,
     entry_index |-> idx,
     conflicting_time_slot |-> slot]

ValidationViolation(type, weight_of, id, etype, idx, slot) ==
    [violation_type |-> type,
     severity |-> "CRITICAL",
     entity_id |-> id,
     entity_type |-> etype,
     weight |-> violation_definitions[weight_of].weight,
     is_critical |-> TRUE,
     entry_index |-> idx,
     conflicting_time_slot |-> slot]

(***************************************************************************)
(* State.                                                                  *)
(*   data_matrix         the reference dataset: per collection the ids it  *)
(*                       holds (rooms and batches with capacity / size)    *)
(*   solver_output       the assignment: a sequence of entries             *)
(*   violations          the violation list _validate_solution accumulates *)
(*   validation_result   the ValidationResult last returned                *)
(*   threshold_result    the dict _analyze_thresholds last returned        *)
(*   faculty_assignments, room_assignments, batch_assignments              *)
(*                       the three booking maps as the last call to        *)
(*                       _validate_solution left them                      *)
(*   stage               position in the pipeline                          *)
(*   first_run           history: the assignment and the result of the     *)
(*                       first validation on this engine                   *)
(*   optimization_matrix the matrix handed to the solver engine: the size  *)
(*                       of each collection it holds                       *)
(*   complexity_profile  the ComplexityProfile of the matrix               *)
(*   solver_selection    the SolverSelection made for the profile          *)
(*   solver_output_file, data_matrix_file                                  *)
(*                       the two files validate_and_format is pointed at   *)
(*   final_result        the dict validate_and_format returns              *)
(*   optimization_matrix_file                                              *)
(*                       the file solve_timetable is pointed at            *)
(*   selected_solver     the solver solve_timetable took from its registry *)
(*   solution_result     what that solver's solve returned, with the name  *)
(*                       of the solver that ran                            *)
(*   engine_result       the dict solve_timetable returns                  *)
(***************************************************************************)
VARIABLES data_matrix, solver_output, violations, validation_result,
          threshold_result, faculty_assignments, room_assignments,
          batch_assignments, stage, first_run,
          optimization_matrix, complexity_profile, solver_selection,
          solver_output_file, data_matrix_file, final_result,
          optimization_matrix_file, selected_solver, solution_result,
          engine_result

\* the input file, the execution stage and the result of solve_timetable
engine_vars == <<optimization_matrix_file, selected_solver, solution_result,
                 engine_result>>

\* the state of the solver engine
solver_vars == <<optimization_matrix, complexity_profile, solver_selection,
                 engine_vars>>

\* the two input files of validate_and_format and the dict it returns
format_vars == <<solver_output_file, data_matrix_file, final_result>>

\* the state of the validation engine
validator_vars == <<data_matrix, solver_output, violations, validation_result,
                    threshold_result, faculty_assignments, room_assignments,
                    batch_assignments, first_run>>

vars == <<data_matrix, solver_output, violations, validation_result,
          threshold_result, faculty_assignments, room_assignments,
          batch_assignments, stage, first_run,
          optimization_matrix, complexity_profile, solver_selection,
          solver_output_file, data_matrix_file, final_result,
          optimization_matrix_file, selected_solver, solution_result,
          engine_result>>

(***************************************************************************)
(* _validate_solution: lookups and booking maps.                           *)
(***************************************************************************)
course_lookup(dm) == dm.courses
faculty_lookup(dm) == dm.faculty
room_lookup(dm) == DOMAIN dm.rooms
time_slot_lookup(dm) == dm.time_slots
batch_lookup(dm) == DOMAIN dm.batches

\* mutant of InitialBookings: the maps survive from the previous call
LeakedBookings ==
    [faculty_assignments |-> faculty_assignments,
     room_assignments |-> room_assignments,
     batch_assignments |-> batch_assignments]

\* the three maps are created empty at the start of every call
InitialBookings ==
    [faculty_assignments |-> EmptyDict,
     room_assignments |-> EmptyDict,
     batch_assignments |-> EmptyDict]

(***************************************************************************)
(* _validate_single_entry.                                                 *)
(***************************************************************************)
\* mutant of Book: the first booking of an entity creates its list empty
BookForgetFirst(assignments, id, slot) ==
    IF id \in DOMAIN assignments
    THEN IF InList(slot, assignments[id])
         THEN [conflict |-> TRUE, assignments |-> assignments]
         ELSE [conflict |-> FALSE,
               assignments |-> DictPut(assignments, id, Append(assignments[id], slot))]
    ELSE [conflict |-> FALSE, assignments |-> DictPut(assignments, id, <<>>)]

\* mutant of Book: only the most recent booking of the entity is compared
BookLastOnly(assignments, id, slot) ==
    IF id \in DOMAIN assignments
    THEN IF assignments[id][Len(assignments[id])] = slot
         THEN [conflict |-> TRUE, assignments |-> assignments]
         ELSE [conflict |-> FALSE,
               assignments |-> DictPut(assignments, id, Append(assignments[id], slot))]
    ELSE [conflict |-> FALSE, assignments |-> DictPut(assignments, id, <<slot>>)]

\* one booking step: flag the slot if the entity already holds it, else record it
Book(assignments, id, slot) ==
    IF id \in DOMAIN assignments
    THEN IF InList(slot, assignments[id])
         THEN [conflict |-> TRUE, assignments |-> assignments]
         ELSE [conflict |-> FALSE,
               assignments |-> DictPut(assignments, id, Append(assignments[id], slot))]
    ELSE [conflict |-> FALSE, assignments |-> DictPut(assignments, id, <<slot>>)]

\* mutant of IntegrityViolations: the five tests form one chain that stops at
\* the first id without a record
IntegrityViolationsFirstOnly(entry, entry_idx, dm) ==
    IF entry.course_id /= "" /\ entry.course_id \notin course_lookup(dm)
    THEN <<ValidationViolation("INVALID_FACULTY_REFERENCE", "INVALID_FACULTY_REFERENCE",
                               entry.course_id, "COURSE", entry_idx, "")>>
    ELSE IF entry.faculty_id /= "" /\ entry.faculty_id \notin faculty_lookup(dm)
    THEN <<ValidationViolation("INVALID_FACULTY_REFERENCE", "INVALID_FACULTY_REFERENCE",
                               entry.faculty_id, "FACULTY", entry_idx, "")>>
    ELSE IF entry.room_id /= "" /\ entry.room_id \notin room_lookup(dm)
    THEN <<ValidationViolation("INVALID_ROOM_REFERENCE", "INVALID_ROOM_REFERENCE",
                               entry.room_id, "ROOM", entry_idx, "")>>
    ELSE IF entry.time_slot_id /= "" /\ entry.time_slot_id \notin time_slot_lookup(dm)
    THEN <<ValidationViolation("INVALID_TIME_SLOT_REFERENCE", "INVALID_TIME_SLOT_REFERENCE",
                               entry.time_slot_id, "TIME_SLOT", entry_idx, "")>>
    ELSE IF entry.batch_id /= "" /\ entry.batch_id \notin batch_lookup(dm)
    THEN <<ValidationViolation("MISSING_BATCH_ASSIGNMENT", "MISSING_BATCH_ASSIGNMENT",
                               entry.batch_id, "BATCH", entry_idx, "")>>
    ELSE <<>>

\* 1. data integrity: one violation per non-empty id that has no record
IntegrityViolations(entry, entry_idx, dm) ==
    (IF entry.course_id /= "" /\ entry.course_id \notin course_lookup(dm)
     THEN <<ValidationViolation("INVALID_FACULTY_REFERENCE", "INVALID_FACULTY_REFERENCE",
                                entry.course_id, "COURSE", entry_idx, "")>>
     ELSE <<>>)
    \o
    (IF entry.faculty_id /= "" /\ entry.faculty_id \notin faculty_lookup(dm)
     THEN <<ValidationViolation("INVALID_FACULTY_REFERENCE", "INVALID_FACULTY_REFERENCE",
                                entry.faculty_id, "FACULTY", entry_idx, "")>>
     ELSE <<>>)
    \o
    (IF entry.room_id /= "" /\ entry.room_id \notin room_lookup(dm)
     THEN <<ValidationViolation("INVALID_ROOM_REFERENCE", "INVALID_ROOM_REFERENCE",
                                entry.room_id, "ROOM", entry_idx, "")>>
     ELSE <<>>)
    \o
    (IF entry.time_slot_id /= "" /\ entry.time_slot_id \notin time_slot_lookup(dm)
     THEN <<ValidationViolation("INVALID_TIME_SLOT_REFERENCE", "INVALID_TIME_SLOT_REFERENCE",
                                entry.time_slot_id, "TIME_SLOT", entry_idx, "")>>
     ELSE <<>>)
    \o
    (IF entry.batch_id /= "" /\ entry.batch_id \notin batch_lookup(dm)
     THEN <<ValidationViolation("MISSING_BATCH_ASSIGNMENT", "MISSING_BATCH_ASSIGNMENT",
                                entry.batch_id, "BATCH", entry_idx, "")>>
     ELSE <<>>)

\* mutant of ReferencesValid: an id that is not given counts as valid
ReferencesValidOrEmpty(entry, dm) ==
    /\ entry.faculty_id = "" \/ entry.faculty_id \in faculty_lookup(dm)
    /\ entry.room_id = "" \/ entry.room_id \in room_lookup(dm)
    /\ entry.time_slot_id = "" \/ entry.time_slot_id \in time_slot_lookup(dm)
    /\ entry.batch_id = "" \/ entry.batch_id \in batch_lookup(dm)

\* the guard of the conflict block: faculty, room, time slot and batch resolve
ReferencesValid(entry, dm) ==
    /\ entry.faculty_id \in faculty_lookup(dm)
    /\ entry.room_id \in room_lookup(dm)
    /\ entry.time_slot_id \in time_slot_lookup(dm)
    /\ entry.batch_id \in batch_lookup(dm)

\* 3. capacity validation (inside the conflict block)
CapacityViolations(entry, dm) ==
    IF entry.room_id \in room_lookup(dm) /\ entry.batch_id \in batch_lookup(dm)
    THEN IF dm.batches[entry.batch_id] > dm.rooms[entry.room_id]
         THEN <<ValidationViolation("ROOM_CAPACITY_EXCEEDED", "ROOM_CAPACITY_EXCEEDED",
                                    entry.room_id, "ROOM", -1, "")>>
         ELSE <<>>
    ELSE <<>>

\* b: the booking maps before the entry; result: the entry's violations and
\* the maps after it
ValidateSingleEntry(entry, entry_idx, dm, b) ==
    LET integrity == IntegrityViolations(entry, entry_idx, dm)
    IN  IF ReferencesValid(entry, dm)
        THEN LET f == Book(b.faculty_assignments, entry.faculty_id, entry.time_slot_id)
                 r == Book(b.room_assignments, entry.room_id, entry.time_slot_id)
                 g == Book(b.batch_assignments, entry.batch_id, entry.time_slot_id)
             IN  [violations |->
                      integrity
                      \o (IF f.conflict
                          THEN <<ValidationViolation("FACULTY_DOUBLE_BOOKING",
                                     "FACULTY_DOUBLE_BOOKING", entry.faculty_id, "FACULTY",
                                     -1, entry.time_slot_id)>>
                          ELSE <<>>)
                      \o (IF r.conflict
                          THEN <<ValidationViolation("ROOM_DOUBLE_BOOKING",
                                     "ROOM_DOUBLE_BOOKING", entry.room_id, "ROOM",
                                     -1, entry.time_slot_id)>>
                          ELSE <<>>)
                      \o (IF g.conflict
                          THEN <<ValidationViolation("BATCH_TIME_CONFLICT",
                                     "BATCH_TIME_CONFLICT", entry.batch_id, "BATCH",
                                     -1, entry.time_slot_id)>>
                          ELSE <<>>)
                      \o CapacityViolations(entry, dm),
                  bookings |-> [faculty_assignments |-> f.assignments,
                                room_assignments |-> r.assignments,
                                batch_assignments |-> g.assignments]]
        ELSE [violations |-> integrity, bookings |-> b]

\* the loop over enumerate(solver_output), from entry i on
RECURSIVE ValidateEntries(_, _, _, _)
ValidateEntries(entries, i, dm, acc) ==
    IF i > Len(entries) THEN acc
    ELSE LET one == ValidateSingleEntry(entries[i], i - 1, dm, acc.bookings)
         IN  ValidateEntries(entries, i + 1, dm,
                             [violations |-> acc.violations \o one.violations,
                              bookings |-> one.bookings])

(***************************************************************************)
(* _validate_system_constraints.                                           *)
(***************************************************************************)
scheduled_courses(entries) ==
    {entries[i].course_id : i \in 1..Len(entries)} \ {""}

\* mutant of missing_courses: a course counts as scheduled only through an
\* entry whose references are all valid
MissingCoursesValidOnly(entries, dm) ==
    course_lookup(dm) \
        {entries[i].course_id :
            i \in {j \in 1..Len(entries) : ReferencesValid(entries[j], dm)}}

missing_courses(entries, dm) == course_lookup(dm) \ scheduled_courses(entries)

\* mutant of ValidateSystemConstraints: the system-wide pass is skipped for an
\* assignment without entries
ValidateSystemConstraintsSkipEmpty(entries, dm) ==
    IF entries = <<>> THEN <<>>
    ELSE LET order == SetOrder(missing_courses(entries, dm))
         IN  [i \in 1..Len(order) |->
                 ValidationViolation("MISSING_COURSE_ASSIGNMENT",
                                     "MISSING_COURSE_ASSIGNMENT", order[i], "COURSE", -1, "")]

ValidateSystemConstraints(entries, dm) ==
    LET order == SetOrder(missing_courses(entries, dm))
    IN  [i \in 1..Len(order) |->
            ValidationViolation("MISSING_COURSE_ASSIGNMENT", "MISSING_COURSE_ASSIGNMENT",
                                order[i], "COURSE", -1, "")]

(***************************************************************************)
(* _calculate_quality_metrics.  A dict with two keys for an empty          *)
(* assignment, with five keys otherwise.                                   *)
(***************************************************************************)
\* mutant of QualityExact: the total weight is used where the average belongs
QualityFromTotal(total_weighted_score, n_violations, total_entries) ==
    [num |-> Max(100 * total_entries,
                 1000 * total_entries - 100 * total_weighted_score),
     den |-> total_entries]

\* quality before rounding, as the fraction num/den of hundredths:
\* max(1.0, 10.0 - (avg_violation_weight / total_entries) * 10)
QualityExact(total_weighted_score, n_violations, total_entries) ==
    [num |-> Max(100 * n_violations * total_entries,
                 1000 * n_violations * total_entries - 100 * total_weighted_score),
     den |-> n_violations * total_entries]

\* mutant of FeasibilityExact: the clamp at 0.0 is missing
FeasibilityUnclamped(critical_violations, total_entries) ==
    [num |-> 1000 * (total_entries - critical_violations),
     den |-> total_entries]

\* feasibility before rounding, as the fraction num/den of thousandths:
\* max(0.0, 1.0 - critical_violations / total_entries)
FeasibilityExact(critical_violations, total_entries) ==
    [num |-> Max(0, 1000 * (total_entries - critical_violations)),
     den |-> total_entries]

CalculateQualityMetrics(vs, entries) ==
    LET total_entries == Len(entries)
        total_weighted_score == SumWeights(vs)
        critical_violations == CriticalCount(vs)
        q == QualityExact(total_weighted_score, Len(vs), total_entries)
        f == FeasibilityExact(critical_violations, total_entries)
    IN  IF total_entries = 0
        THEN [quality_score |-> 0, feasibility_score |-> 0]
        ELSE [quality_score |->
                  IF total_weighted_score = 0 THEN 1000
                  ELSE RoundHalfEven(q.num, q.den),
              feasibility_score |-> RoundHalfEven(f.num, f.den),
              violation_density |-> RoundHalfEven(1000 * Len(vs), total_entries),
              critical_violation_ratio |->
                  RoundHalfEven(1000 * critical_violations, total_entries),
              average_violation_weight |->
                  IF vs = <<>> THEN 0
                  ELSE RoundHalfEven(10 * total_weighted_score, Len(vs))]

\* dict.get(key, 0)
Get(d, key) == IF key \in DOMAIN d THEN d[key] ELSE 0

(***************************************************************************)
(* _validate_solution, after the two passes: counts, status, metrics.      *)
(***************************************************************************)
\* mutant of OverallStatus: warnings are looked at before critical violations
OverallStatusWarningFirst(critical, warning) ==
    IF warning > 0 THEN "WARNING"
    ELSE IF critical > 0 THEN "FAIL"
    ELSE "PASS"

OverallStatus(critical, warning) ==
    IF critical > 0 THEN "FAIL"
    ELSE IF warning > 0 THEN "WARNING"
    ELSE "PASS"

ValidationResult(vs, entries) ==
    LET critical == CriticalCount(vs)
        warning == WarningCount(vs)
    IN  [overall_status |-> OverallStatus(critical, warning),
         total_violations |-> Len(vs),
         critical_violations |-> critical,
         warning_violations |-> warning,
         violation_details |-> vs,
         quality_metrics |-> CalculateQualityMetrics(vs, entries)]

\* the two passes of _validate_solution: the violation list and the booking
\* maps the call ends with
ValidationPasses(entries, dm) ==
    LET per_entry == ValidateEntries(entries, 1, dm,
                                     [violations |-> <<>>, bookings |-> InitialBookings])
    IN  [violations |-> per_entry.violations \o ValidateSystemConstraints(entries, dm),
         bookings |-> per_entry.bookings]

\* a capacity or a score that is not a number (a string or null in the file)
NotANumber == -1

\* the try body of _validate_solution raises: the capacity check of an entry
\* that reaches it compares the batch size with a capacity that is not a
\* number (TypeError)
ValidationRaises(entries, dm) ==
    \E i \in 1..Len(entries) :
        /\ ReferencesValid(entries[i], dm)
        /\ entries[i].room_id \in room_lookup(dm)
        /\ dm.rooms[entries[i].room_id] = NotANumber

\* the report the except branch of _validate_solution returns
ErrorResult ==
    [overall_status |-> "ERROR",
     total_violations |-> 0,
     critical_violations |-> 0,
     warning_violations |-> 0,
     violation_details |-> <<>>,
     quality_metrics |-> [k \in {"error"} |-> "raised"]]

\* _validate_solution as a whole: the report, with the violation list and the
\* booking maps of the call (locals, dropped when the try body raises)
ValidateSolutionOp(entries, dm) ==
    IF ValidationRaises(entries, dm)
    THEN [result |-> ErrorResult, violations |-> <<>>, bookings |-> InitialBookings]
    ELSE LET passes == ValidationPasses(entries, dm)
         IN  [result |-> ValidationResult(passes.violations, entries),
              violations |-> passes.violations,
              bookings |-> passes.bookings]

(***************************************************************************)
(* _analyze_thresholds.                                                    *)
(***************************************************************************)
\* the denominator of both ratios
total_assignments == 100

Ratio(count) == IF total_assignments > 0 THEN Frac(count, total_assignments)
                ELSE Frac(0, 1)

\* mutant of OverallPass: any() where all() belongs
OverallPassAny(t) ==
    \/ t.critical_ratio_pass
    \/ t.total_ratio_pass
    \/ t.weighted_score_pass
    \/ t.quality_score_pass
    \/ t.feasibility_score_pass

OverallPass(t) ==
    /\ t.critical_ratio_pass
    /\ t.total_ratio_pass
    /\ t.weighted_score_pass
    /\ t.quality_score_pass
    /\ t.feasibility_score_pass

\* the try body of _analyze_thresholds
ThresholdResults(result) ==
    LET critical_ratio == Ratio(result.critical_violations)
        total_ratio == Ratio(result.total_violations)
        weighted_score == SumWeights(result.violation_details)
        quality_score == Get(result.quality_metrics, "quality_score")
        feasibility_score == Get(result.quality_metrics, "feasibility_score")
        flags ==
            [critical_ratio_pass |-> FracLeq(critical_ratio, CRITICAL_VIOLATION_RATIO),
             total_ratio_pass |-> FracLeq(total_ratio, TOTAL_VIOLATION_RATIO),
             weighted_score_pass |-> weighted_score <= WEIGHTED_SCORE_THRESHOLD,
             quality_score_pass |-> quality_score >= QUALITY_SCORE_THRESHOLD,
             feasibility_score_pass |-> feasibility_score >= FEASIBILITY_THRESHOLD]
    IN  [critical_ratio |-> critical_ratio,
         critical_ratio_pass |-> flags.critical_ratio_pass,
         total_ratio |-> total_ratio,
         total_ratio_pass |-> flags.total_ratio_pass,
         weighted_score |-> weighted_score,
         weighted_score_pass |-> flags.weighted_score_pass,
         quality_score |-> quality_score,
         quality_score_pass |-> flags.quality_score_pass,
         feasibility_score |-> feasibility_score,
         feasibility_score_pass |-> flags.feasibility_score_pass,
         overall_pass |-> OverallPass(flags)]

ReportFields ==
    {"overall_status", "total_violations", "critical_violations",
     "warning_violations", "violation_details", "quality_metrics"}

\* the argument has the attributes of a ValidationResult
IsReport(result) == DOMAIN result = ReportFields

\* Python's None
None == [is_none |-> TRUE, value |-> <<>>]

\* the try body raises: an attribute is missing (AttributeError), the metrics
\* are not a dict (AttributeError), or a score is not a number (TypeError)
GateRaises(result) ==
    \/ ~IsReport(result)
    \/ result.quality_metrics = None
    \/ Get(result.quality_metrics, "quality_score") = NotANumber
    \/ Get(result.quality_metrics, "feasibility_score") = NotANumber

\* mutant of GateError: the error marker comes with a passing decision
GateErrorPassing == [overall_pass |-> TRUE, error |-> "raised"]

\* the dict the except branch of _analyze_thresholds returns
GateError == [overall_pass |-> FALSE, error |-> "raised"]

\* _analyze_thresholds as a whole
AnalyzeThresholdsOp(result) ==
    IF GateRaises(result) THEN GateError ELSE ThresholdResults(result)

(***************************************************************************)
(* Inputs.                                                                 *)
(***************************************************************************)
\* every id of FullData resolves; PartialData lacks C2, F2, R2, T2 and B2;
\* EmptyData holds nothing.  Batch B1 (40 students) does not fit room R1.
FullData ==
    [courses |-> {"C1", "C2"},
     faculty |-> {"F1", "F2"},
     rooms |-> ("R1" :> 30) @@ ("R2" :> 60),
     time_slots |-> {"T1", "T2"},
     batches |-> ("B1" :> 40) @@ ("B2" :> 20)]

PartialData ==
    [courses |-> {"C1"},
     faculty |-> {"F1"},
     rooms |-> ("R1" :> 50),
     time_slots |-> {"T1"},
     batches |-> ("B1" :> 40)]

EmptyData ==
    [courses |-> {},
     faculty |-> {},
     rooms |-> EmptyDict,
     time_slots |-> {},
     batches |-> EmptyDict]

Datasets == {FullData, PartialData, EmptyData}

Entry(c, f, r, t, b) ==
    [course_id |-> c, faculty_id |-> f, room_id |-> r, time_slot_id |-> t,
     batch_id |-> b]

\* Four sessions per time slot, any two of which share exactly one of faculty,
\* room and batch (so each kind of conflict occurs alone, and a repeated entry
\* gives all three); course C1 at slot T1, course C2 at slot T2; and one
\* session of course C2 at slot T1.
SessionsAt(c, t) ==
    {Entry(c, "F1", "R1", t, "B1"), Entry(c, "F1", "R2", t, "B2"),
     Entry(c, "F2", "R1", t, "B2"), Entry(c, "F2", "R2", t, "B1")}

Entries ==
    SessionsAt("C1", "T1") \cup SessionsAt("C2", "T2")
        \cup {Entry("C2", "F1", "R1", "T1", "B1")}

Assignments == SeqsUpTo(Entries, MaxEntries)

\* inputs of the re-validation spec
RerunEntries ==
    {Entry("C1", "F1", "R1", "T1", "B1"), Entry("C1", "F1", "R2", "T1", "B2"),
     Entry("C2", "F2", "R1", "T2", "B2")}

RerunAssignments == SeqsUpTo(RerunEntries, MaxRerunEntries)

\* inputs of the metrics spec: violation lists of up to MaxPerKind violations
\* of each of five kinds, critical and not, and assignments of 0..MaxSessions
\* entries
SyntheticKinds ==
    <<"FACULTY_DOUBLE_BOOKING", "ROOM_CAPACITY_EXCEEDED", "MISSING_COURSE_ASSIGNMENT",
      "DUPLICATE_ASSIGNMENT", "NON_PREFERRED_TIME_SLOT">>

SyntheticViolation(kind) ==
    [violation_type |-> kind,
     severity |-> IF violation_definitions[kind].critical THEN "CRITICAL" ELSE "WARNING",
     entity_id |-> "",
     entity_type |-> "",
     weight |-> violation_definitions[kind].weight,
     is_critical |-> violation_definitions[kind].critical,
     entry_index |-> -1,
     conflicting_time_slot |-> ""]

RECURSIVE SyntheticList(_, _)
SyntheticList(counts, k) ==
    IF k > Len(SyntheticKinds) THEN <<>>
    ELSE [i \in 1..counts[k] |-> SyntheticViolation(SyntheticKinds[k])]
         \o SyntheticList(counts, k + 1)

SyntheticViolationLists ==
    {SyntheticList(counts, 1) :
        counts \in [1..Len(SyntheticKinds) -> 0..MaxPerKind]}

SyntheticAssignments ==
    {[i \in 1..n |-> Entry("C1", "F1", "R1", "T1", "B1")] : n \in 0..MaxSessions}

NoResult ==
    [overall_status |-> "NONE", total_violations |-> 0, critical_violations |-> 0,
     warning_violations |-> 0, violation_details |-> <<>>,
     quality_metrics |-> [quality_score |-> 0, feasibility_score |-> 0]]

NoThresholds == [overall_pass |-> FALSE, error |-> "not analyzed"]

NoRun ==
    [validated |-> FALSE, solver_output |-> <<>>, data_matrix |-> EmptyData,
     result |-> NoResult, intervening |-> FALSE]

(***************************************************************************)
(* Values of the parts of the state an engine has not touched.             *)
(***************************************************************************)
NoMatrix == [loaded |-> FALSE]

NoProfile == [analyzed |-> FALSE]

NoSelection == [selected |-> FALSE]

NoFile == [given |-> FALSE]

NoFinalResult == [status |-> "NONE"]

NoSolver == [name |-> "NONE"]

NoSolution == [status |-> "NONE", solved_by |-> "NONE"]

\* solve_timetable has not been called
EngineIdle ==
    /\ optimization_matrix_file = NoFile
    /\ selected_solver = NoSolver
    /\ solution_result = NoSolution
    /\ engine_result = NoFinalResult

\* the solver engine has not been started
SolverIdle ==
    /\ optimization_matrix = NoMatrix
    /\ complexity_profile = NoProfile
    /\ solver_selection = NoSelection
    /\ EngineIdle

\* the engine is driven stage by stage, not through validate_and_format
NoFiles ==
    /\ solver_output_file = NoFile
    /\ data_matrix_file = NoFile
    /\ final_result = NoFinalResult

(***************************************************************************)
(* Operations.                                                             *)
(***************************************************************************)
Init ==
    /\ data_matrix \in Datasets
    /\ solver_output \in Assignments
    /\ violations = <<>>
    /\ validation_result = NoResult
    /\ threshold_result = NoThresholds
    /\ faculty_assignments = EmptyDict
    /\ room_assignments = EmptyDict
    /\ batch_assignments = EmptyDict
    /\ stage = "loaded"
    /\ first_run = NoRun
    /\ SolverIdle
    /\ NoFiles

\* ValidationEngine._validate_solution(solver_output, data_matrix)
ValidateSolution ==
    /\ stage = "loaded"
    /\ LET passes == ValidateSolutionOp(solver_output, data_matrix)
           result == passes.result
       IN  /\ violations' = passes.violations
           /\ validation_result' = result
           /\ faculty_assignments' = passes.bookings.faculty_assignments
           /\ room_assignments' = passes.bookings.room_assignments
           /\ batch_assignments' = passes.bookings.batch_assignments
           /\ first_run' =
                  IF ~first_run.validated
                  THEN [validated |-> TRUE, solver_output |-> solver_output,
                        data_matrix |-> data_matrix, result |-> result,
                        intervening |-> FALSE]
                  ELSE IF solver_output /= first_run.solver_output
                  THEN [first_run EXCEPT !.intervening = TRUE]
                  ELSE first_run
    /\ stage' = "validated"
    /\ UNCHANGED <<data_matrix, solver_output, threshold_result>>
    /\ UNCHANGED <<solver_vars, format_vars>>

\* ValidationEngine._analyze_thresholds(validation_result)
AnalyzeThresholds ==
    /\ stage = "validated"
    /\ threshold_result' = AnalyzeThresholdsOp(validation_result)
    /\ stage' = "analyzed"
    /\ UNCHANGED <<data_matrix, solver_output, violations, validation_result,
                   faculty_assignments, room_assignments, batch_assignments,
                   first_run>>
    /\ UNCHANGED <<solver_vars, format_vars>>

Next == ValidateSolution \/ AnalyzeThresholds

Spec == Init /\ [][Next]_vars

(***************************************************************************)
(* Metrics specification: the tail of _validate_solution                   *)
(* (_calculate_quality_metrics and the result record) and the gate,        *)
(* applied to violation lists and entry counts drawn from bounded sets.    *)
(***************************************************************************)
InitMetrics ==
    /\ data_matrix = FullData
    /\ solver_output \in SyntheticAssignments
    /\ violations \in SyntheticViolationLists
    /\ validation_result = NoResult
    /\ threshold_result = NoThresholds
    /\ faculty_assignments = EmptyDict
    /\ room_assignments = EmptyDict
    /\ batch_assignments = EmptyDict
    /\ stage = "collected"
    /\ first_run = NoRun
    /\ SolverIdle
    /\ NoFiles

\* lines 357-381 of _validate_solution on the violation list collected
CompileResult ==
    /\ stage = "collected"
    /\ validation_result' = ValidationResult(violations, solver_output)
    /\ stage' = "validated"
    /\ UNCHANGED <<data_matrix, solver_output, violations, threshold_result,
                   faculty_assignments, room_assignments, batch_assignments,
                   first_run>>
    /\ UNCHANGED <<solver_vars, format_vars>>

NextMetrics == CompileResult \/ AnalyzeThresholds

SpecMetrics == InitMetrics /\ [][NextMetrics]_vars

(***************************************************************************)
(* Re-validation specification: one engine validates assignment after      *)
(* assignment against the same dataset.                                    *)
(***************************************************************************)
InitRerun ==
    /\ data_matrix \in {FullData, PartialData}
    /\ solver_output \in RerunAssignments
    /\ violations = <<>>
    /\ validation_result = NoResult
    /\ threshold_result = NoThresholds
    /\ faculty_assignments = EmptyDict
    /\ room_assignments = EmptyDict
    /\ batch_assignments = EmptyDict
    /\ stage = "loaded"
    /\ first_run = NoRun
    /\ SolverIdle
    /\ NoFiles

\* the caller hands the engine the next assignment
LoadSolverOutput(a) ==
    /\ stage = "analyzed"
    /\ solver_output' = a
    /\ stage' = "loaded"
    /\ UNCHANGED <<data_matrix, violations, validation_result, threshold_result,
                   faculty_assignments, room_assignments, batch_assignments,
                   first_run>>
    /\ UNCHANGED <<solver_vars, format_vars>>

NextRerun ==
    \/ ValidateSolution
    \/ AnalyzeThresholds
    \/ \E a \in RerunAssignments : LoadSolverOutput(a)

SpecRerun == InitRerun /\ [][NextRerun]_vars

(***************************************************************************)
(* Properties.                                                             *)
(***************************************************************************)
Validated == stage \in {"validated", "analyzed"}

FacultyIds == {e.faculty_id : e \in Entries}
RoomIds == {e.room_id : e \in Entries}
BatchIds == {e.batch_id : e \in Entries}
TimeSlotIds == {e.time_slot_id : e \in Entries}

\* every id of the entry has a record in the dataset
AllIdsResolve(entry, dm) ==
    /\ entry.course_id \in dm.courses
    /\ entry.faculty_id \in dm.faculty
    /\ entry.room_id \in DOMAIN dm.rooms
    /\ entry.time_slot_id \in dm.time_slots
    /\ entry.batch_id \in DOMAIN dm.batches

\* number of violations of the kind that name the entity at the slot
ConflictCount(vs, kind, id, slot) ==
    Cardinality({i \in 1..Len(vs) :
        /\ vs[i].violation_type = kind
        /\ vs[i].entity_id = id
        /\ vs[i].conflicting_time_slot = slot})

\* the entries (by position) that carry the id in the field at the slot
Carrying(entries, field, id, slot) ==
    {i \in 1..Len(entries) : entries[i][field] = id /\ entries[i].time_slot_id = slot}

\* k entries share the (entity, slot) pair and all resolve: k - 1 violations
ExactlyKMinusOne(field, kind, ids) ==
    \A id \in ids, t \in TimeSlotIds :
        LET sharing == Carrying(solver_output, field, id, t)
        IN  (/\ sharing /= {}
             /\ \A i \in sharing : AllIdsResolve(solver_output[i], data_matrix))
            => ConflictCount(violations, kind, id, t) = Cardinality(sharing) - 1

\* C1: k >= 1 entries sharing a (faculty, slot) pair, all of whose ids resolve,
\* give exactly k - 1 FACULTY_DOUBLE_BOOKING violations for the pair; likewise
\* (room, slot) with ROOM_DOUBLE_BOOKING and (batch, slot) with
\* BATCH_TIME_CONFLICT (so two entries that share faculty and slot but not the
\* room give one FACULTY_DOUBLE_BOOKING and no ROOM_DOUBLE_BOOKING).
C1_ConflictCountIsKMinusOne ==
    Validated =>
        /\ ExactlyKMinusOne("faculty_id", "FACULTY_DOUBLE_BOOKING", FacultyIds)
        /\ ExactlyKMinusOne("room_id", "ROOM_DOUBLE_BOOKING", RoomIds)
        /\ ExactlyKMinusOne("batch_id", "BATCH_TIME_CONFLICT", BatchIds)

\* three resolving entries share faculty F1 and slot T1, the first two in
\* different rooms: two faculty violations, and room R1 booked twice gives one
C1_Witness ==
    /\ stage = "validated"
    /\ data_matrix = FullData
    /\ Len(solver_output) = 3
    /\ \A i \in 1..3 : /\ solver_output[i].faculty_id = "F1"
                       /\ solver_output[i].time_slot_id = "T1"
    /\ solver_output[1].room_id /= solver_output[2].room_id
    /\ ConflictCount(violations, "FACULTY_DOUBLE_BOOKING", "F1", "T1") = 2
    /\ ConflictCount(violations, "ROOM_DOUBLE_BOOKING", "R1", "T1") = 1
    /\ ConflictCount(violations, "ROOM_DOUBLE_BOOKING", "R2", "T1") = 0

\* number of violations per (kind, entity id)
Tally(vs) ==
    [x \in {<<vs[i].violation_type, vs[i].entity_id>> : i \in 1..Len(vs)} |->
        Cardinality({i \in 1..Len(vs) :
            <<vs[i].violation_type, vs[i].entity_id>> = x})]

IndexPermutations(n) == {p \in [1..n -> 1..n] : \A i, j \in 1..n : p[i] = p[j] => i = j}

Permuted(entries, p) == [i \in 1..Len(entries) |-> entries[p[i]]]

\* C2: validating any permutation of the assignment against the same dataset
\* gives the same number of violations of each kind for each entity id.
C2_CountsOrderInsensitive ==
    stage = "validated" =>
        \A p \in IndexPermutations(Len(solver_output)) :
            Tally(ValidationPasses(Permuted(solver_output, p), data_matrix).violations)
                = Tally(violations)

\* a permutation changes the violation list itself (which entry is flagged,
\* in which order) while a double booking is reported
C2_Witness ==
    /\ stage = "validated"
    /\ ConflictCount(violations, "FACULTY_DOUBLE_BOOKING", "F1", "T1") = 1
    /\ \E p \in IndexPermutations(Len(solver_output)) :
           /\ Permuted(solver_output, p) /= solver_output
           /\ ValidationPasses(Permuted(solver_output, p), data_matrix).violations
                  /= violations

MissingCount(vs, c) ==
    Cardinality({i \in 1..Len(vs) :
        vs[i].violation_type = "MISSING_COURSE_ASSIGNMENT" /\ vs[i].entity_id = c})

\* C3: a dataset course no entry carries gets exactly one
\* MISSING_COURSE_ASSIGNMENT violation, a course some entry carries gets none,
\* and no such violation names an id that is not a dataset course.
C3_MissingCourseExactlyOnce ==
    Validated =>
        /\ \A c \in data_matrix.courses :
               MissingCount(violations, c) =
                   IF \E i \in 1..Len(solver_output) : solver_output[i].course_id = c
                   THEN 0 ELSE 1
        /\ \A i \in 1..Len(violations) :
               violations[i].violation_type = "MISSING_COURSE_ASSIGNMENT"
                   => violations[i].entity_id \in data_matrix.courses

\* every entry carries course C1, none C2: one violation for C2, none for C1
C3_Witness ==
    /\ stage = "validated"
    /\ data_matrix = FullData
    /\ Len(solver_output) = 2
    /\ \A i \in 1..2 : solver_output[i].course_id = "C1"
    /\ MissingCount(violations, "C2") = 1
    /\ MissingCount(violations, "C1") = 0

\* C4: validating the first assignment again on the same engine, whatever
\* was validated in between, returns the result of its first validation
\* (violation list with kinds, ids and order, counts, status, metrics), and
\* the dataset is the one the engine was given.
C4_RevalidationIdentical ==
    (Validated /\ first_run.validated) =>
        /\ data_matrix = first_run.data_matrix
        /\ solver_output = first_run.solver_output
               => validation_result = first_run.result

\* the first assignment, which has a double booking, is validated again after
\* a different assignment was validated
C4_Witness ==
    /\ stage = "validated"
    /\ first_run.intervening
    /\ solver_output = first_run.solver_output
    /\ ConflictCount(validation_result.violation_details,
                     "FACULTY_DOUBLE_BOOKING", "F1", "T1") = 1
    /\ faculty_assignments = ("F1" :> <<"T1">>)

\* C5 (as claimed): an empty assignment gives quality 0, feasibility 0, an
\* empty violation list (all counts 0) and a status other than PASS.
C5_EmptyAssignmentNoViolations ==
    (Validated /\ solver_output = <<>>) =>
        /\ validation_result.quality_metrics.quality_score = 0
        /\ validation_result.quality_metrics.feasibility_score = 0
        /\ validation_result.violation_details = <<>>
        /\ validation_result.total_violations = 0
        /\ validation_result.critical_violations = 0
        /\ validation_result.warning_violations = 0
        /\ validation_result.overall_status /= "PASS"

\* C5 (amended): an empty assignment gives quality 0 and feasibility 0; its
\* violation list holds exactly one MISSING_COURSE_ASSIGNMENT per dataset
\* course and nothing else (all of them critical), and its status is FAIL if
\* the dataset has a course and PASS if it has none.
C5_EmptyAssignmentMissesEveryCourse ==
    (Validated /\ solver_output = <<>>) =>
        LET r == validation_result
        IN  /\ r.quality_metrics.quality_score = 0
            /\ r.quality_metrics.feasibility_score = 0
            /\ \A c \in data_matrix.courses : MissingCount(r.violation_details, c) = 1
            /\ \A i \in 1..Len(r.violation_details) :
                   /\ r.violation_details[i].violation_type = "MISSING_COURSE_ASSIGNMENT"
                   /\ r.violation_details[i].entity_id \in data_matrix.courses
            /\ r.total_violations = Cardinality(data_matrix.courses)
            /\ r.critical_violations = Cardinality(data_matrix.courses)
            /\ r.warning_violations = 0
            /\ r.overall_status = IF data_matrix.courses = {} THEN "PASS" ELSE "FAIL"

\* the empty assignment validated against the dataset with two courses
C5_Witness ==
    /\ stage = "validated"
    /\ solver_output = <<>>
    /\ data_matrix = FullData
    /\ validation_result.total_violations = 2
    /\ validation_result.overall_status = "FAIL"
    /\ validation_result.quality_metrics.quality_score = 0

\* C6 (as claimed): the gate reports critical_ratio = criticalCount /
\* entryCount and total_ratio = totalViolations / entryCount (both 0 for an
\* empty assignment), and each ratio's pass flag is the comparison of that
\* value with 0.05 and 0.15.
C6_RatiosOverEntryCount ==
    stage = "analyzed" =>
        LET n == Len(solver_output)
            over(count) == IF n = 0 THEN Frac(0, 1) ELSE Frac(count, n)
            t == threshold_result
        IN  /\ FracEq(t.critical_ratio, over(validation_result.critical_violations))
            /\ FracEq(t.total_ratio, over(validation_result.total_violations))
            /\ t.critical_ratio_pass <=> FracLeq(t.critical_ratio, Frac(5, 100))
            /\ t.total_ratio_pass <=> FracLeq(t.total_ratio, Frac(15, 100))

\* C7: overall_pass is the conjunction of the five pass flags, and each flag
\* is the comparison of the reported value with its threshold (critical ratio
\* <= 0.05, total ratio <= 0.15, weighted score <= 25.0, quality >= 7.0,
\* feasibility >= 0.95); so the failing thresholds are the false flags.
C7_OverallPassIsConjunction ==
    stage = "analyzed" =>
        LET t == threshold_result
        IN  /\ t.critical_ratio_pass <=> FracLeq(t.critical_ratio, Frac(5, 100))
            /\ t.total_ratio_pass <=> FracLeq(t.total_ratio, Frac(15, 100))
            /\ t.weighted_score_pass <=> t.weighted_score <= 250
            /\ t.quality_score_pass <=> t.quality_score >= 700
            /\ t.feasibility_score_pass <=> t.feasibility_score >= 950
            /\ t.overall_pass <=>
                   (/\ t.critical_ratio_pass
                    /\ t.total_ratio_pass
                    /\ t.weighted_score_pass
                    /\ t.quality_score_pass
                    /\ t.feasibility_score_pass)

\* the quality threshold alone fails, and the gate rejects
C7_Witness ==
    /\ stage = "analyzed"
    /\ threshold_result.critical_ratio_pass
    /\ threshold_result.total_ratio_pass
    /\ threshold_result.weighted_score_pass
    /\ ~threshold_result.quality_score_pass
    /\ threshold_result.feasibility_score_pass
    /\ ~threshold_result.overall_pass

\* C8: status is FAIL iff the list holds a critical violation, WARNING iff it
\* holds violations but no critical one, PASS iff it holds none; and
\* critical + warning = total = length of the list.
C8_StatusFromViolations ==
    Validated =>
        LET r == validation_result
            vs == r.violation_details
            some_critical == \E i \in 1..Len(vs) : vs[i].is_critical
        IN  /\ r.overall_status = "FAIL" <=> some_critical
            /\ r.overall_status = "WARNING" <=> (vs /= <<>> /\ ~some_critical)
            /\ r.overall_status = "PASS" <=> vs = <<>>
            /\ r.critical_violations + r.warning_violations = r.total_violations
            /\ r.total_violations = Len(vs)

\* a list of non-critical violations only: WARNING
C8_Witness ==
    /\ stage = "validated"
    /\ validation_result.overall_status = "WARNING"
    /\ validation_result.warning_violations = 2
    /\ validation_result.critical_violations = 0

Abs(x) == IF x >= 0 THEN x ELSE -x

\* the claimed quality, max(1, 10 - (avgViolationWeight / entryCount) * 10),
\* as the fraction num/den of hundredths
ClaimedQuality(vs, entries) ==
    [num |-> Max(100 * Len(vs) * Len(entries),
                 1000 * Len(vs) * Len(entries) - 100 * SumWeights(vs)),
     den |-> Len(vs) * Len(entries)]

\* C9 (as claimed): for a non-empty assignment quality_score is 10 without
\* violations and otherwise exactly max(1, 10 - (avg weight / entries) * 10).
C9_QualityExactFormula ==
    (Validated /\ solver_output /= <<>>) =>
        LET vs == validation_result.violation_details
            q == validation_result.quality_metrics.quality_score
            c == ClaimedQuality(vs, solver_output)
        IN  IF vs = <<>> THEN q = 1000 ELSE q * c.den = c.num

\* C9 (amended): for a non-empty assignment quality_score is 10 without
\* violations and otherwise max(1, 10 - (avg weight / entries) * 10) rounded
\* to two decimal places; it lies in [1, 10].
C9_QualityRoundedFormula ==
    (Validated /\ solver_output /= <<>>) =>
        LET vs == validation_result.violation_details
            q == validation_result.quality_metrics.quality_score
            c == ClaimedQuality(vs, solver_output)
        IN  /\ IF vs = <<>> THEN q = 1000
               ELSE 2 * Abs(q * c.den - c.num) <= c.den
            /\ 100 <= q /\ q <= 1000

\* two violations of different weight, quality strictly between 1 and 10 and
\* not a whole number of hundredths before rounding
C9_Witness ==
    /\ stage = "validated"
    /\ Len(validation_result.violation_details) = 2
    /\ validation_result.violation_details[1].weight
           /= validation_result.violation_details[2].weight
    /\ validation_result.quality_metrics.quality_score > 100
    /\ validation_result.quality_metrics.quality_score < 1000
    /\ LET c == ClaimedQuality(validation_result.violation_details, solver_output)
       IN  validation_result.quality_metrics.quality_score * c.den /= c.num

\* number of critical violations in the list
CriticalIn(vs) == Cardinality({i \in 1..Len(vs) : vs[i].is_critical})

\* C10 (as claimed): for a non-empty assignment feasibility_score is exactly
\* max(0, 1 - criticalCount / entryCount).
C10_FeasibilityExactFormula ==
    (Validated /\ solver_output /= <<>>) =>
        LET n == Len(solver_output)
            c == CriticalIn(validation_result.violation_details)
        IN  validation_result.quality_metrics.feasibility_score * n
                = Max(0, 1000 * (n - c))

\* C10 (amended): for a non-empty assignment feasibility_score is
\* max(0, 1 - criticalCount / entryCount) rounded to three decimal places,
\* criticalCount counting every critical violation of the report; it lies in
\* [0, 1] and is 0 whenever criticalCount >= entryCount.
C10_FeasibilityRoundedFormula ==
    (Validated /\ solver_output /= <<>>) =>
        LET n == Len(solver_output)
            c == CriticalIn(validation_result.violation_details)
            f == validation_result.quality_metrics.feasibility_score
        IN  /\ 2 * Abs(f * n - Max(0, 1000 * (n - c))) <= n
            /\ 0 <= f /\ f <= 1000
            /\ c >= n => f = 0

\* three entries of which two put batch B2 in slot T2: one critical
\* violation, and 1 - 1/3 is reported as 0.667
C10_Witness ==
    /\ stage = "validated"
    /\ Len(solver_output) = 3
    /\ Len(validation_result.violation_details) = 1
    /\ validation_result.violation_details[1].violation_type = "BATCH_TIME_CONFLICT"
    /\ validation_result.critical_violations = 1
    /\ validation_result.quality_metrics.feasibility_score = 667

(***************************************************************************)
(* C11.  Every violation the validator emits carries the weight and the    *)
(* is-critical flag the violation table assigns to its kind.  The table is *)
(* the definition violation_definitions: no statement of the engine        *)
(* assigns to it or to one of its entries, so it is the same in every      *)
(* state.                                                                  *)
(***************************************************************************)
C11_ViolationsCarryTableValues ==
    Validated =>
        \A i \in 1..Len(violations) :
            LET v == violations[i]
            IN  /\ v.violation_type \in DOMAIN violation_definitions
                /\ v.weight = violation_definitions[v.violation_type].weight
                /\ v.is_critical = violation_definitions[v.violation_type].critical

\* a double booking (10.0), a capacity overrun (9.0) and a missing course
\* (8.0) in one report
C11_Witness ==
    /\ Validated
    /\ \E i, j, k \in 1..Len(violations) :
           /\ violations[i].violation_type = "FACULTY_DOUBLE_BOOKING"
           /\ violations[i].weight = 100
           /\ violations[j].violation_type = "ROOM_CAPACITY_EXCEEDED"
           /\ violations[j].weight = 90
           /\ violations[k].violation_type = "MISSING_COURSE_ASSIGNMENT"
           /\ violations[k].weight = 80
           /\ violations[i].is_critical /\ violations[j].is_critical
           /\ violations[k].is_critical

(***************************************************************************)
(* Solver engine (src/solver_engine_prototype.py): ComplexityAnalyzer.     *)
(*                                                                         *)
(* Numbers.  The analyzer and the selector compute scores with floats; the *)
(* model computes the same expressions over exact rationals, records       *)
(* [num, den] in lowest terms with den > 0, so that equal values are equal *)
(* records.  0.3 is 3/10, 0.7 is 7/10, 0.35 is 35/100, and so on.          *)
(***************************************************************************)
RECURSIVE GCD(_, _)
GCD(a, b) == IF b = 0 THEN a ELSE GCD(b, a % b)

LCM(a, b) == (a \div GCD(a, b)) * b

\* the rational n/d (d /= 0) in lowest terms
Rat(n, d) ==
    LET g == GCD(Abs(n), Abs(d))
    IN  IF d > 0 THEN [num |-> n \div g, den |-> d \div g]
        ELSE [num |-> (0 - n) \div g, den |-> (0 - d) \div g]

RatInt(n) == [num |-> n, den |-> 1]

RatAdd(a, b) ==
    LET l == LCM(a.den, b.den)
    IN  Rat(a.num * (l \div a.den) + b.num * (l \div b.den), l)

RatSub(a, b) ==
    LET l == LCM(a.den, b.den)
    IN  Rat(a.num * (l \div a.den) - b.num * (l \div b.den), l)

RatMul(a, b) ==
    LET g1 == GCD(Abs(a.num), b.den)
        g2 == GCD(Abs(b.num), a.den)
    IN  IF a.num = 0 \/ b.num = 0 THEN RatInt(0)
        ELSE Rat((a.num \div g1) * (b.num \div g2), (a.den \div g2) * (b.den \div g1))

\* a / b, b /= 0
RatDiv(a, b) == RatMul(a, Rat(b.den, b.num))

RatLeq(a, b) ==
    LET l == LCM(a.den, b.den)
    IN  a.num * (l \div a.den) <= b.num * (l \div b.den)

RatLt(a, b) == ~RatLeq(b, a)

RatMin(a, b) == IF RatLeq(a, b) THEN a ELSE b

RatMax(a, b) == IF RatLeq(b, a) THEN a ELSE b

(***************************************************************************)
(* The optimization matrix.  The analyzer reads only the size of seven     *)
(* collections; a field holds that size, or NotSized when the matrix       *)
(* carries there a value len() rejects (a JSON null or number).            *)
(***************************************************************************)
NotSized == -1

MatrixFields ==
    {"courses", "faculty", "rooms", "time_slots", "batches",
     "hard_constraints", "soft_constraints"}

\* len() raises on one of the collections
LenRaises(m) == \E f \in MatrixFields : m[f] = NotSized

\* the effective decision space of lines 199-205
EffectiveComplexity(courses, faculty, rooms, time_slots, batches) ==
    LET decision_variables == courses * time_slots * batches
        faculty_reduction == RatMin(RatInt(1), Rat(faculty, courses))
        room_reduction == RatMin(RatInt(1), Rat(10 * rooms, 3 * courses))
    IN  RatMul(RatMul(RatInt(decision_variables), faculty_reduction),
               room_reduction)

\* the scaling to 1-10 of lines 208-217
LogarithmicScaling(effective_complexity) ==
    LET Band(base, lo, width) ==
            RatAdd(RatInt(base),
                   RatMul(RatDiv(RatSub(effective_complexity, RatInt(lo)),
                                 RatInt(width)), RatInt(2)))
    IN  IF RatLt(effective_complexity, RatInt(100)) THEN Band(1, 0, 100)
        ELSE IF RatLt(effective_complexity, RatInt(1000)) THEN Band(3, 100, 900)
        ELSE IF RatLt(effective_complexity, RatInt(10000)) THEN Band(5, 1000, 9000)
        ELSE IF RatLt(effective_complexity, RatInt(100000))
        THEN Band(7, 10000, 90000)
        ELSE RatAdd(RatInt(9),
                    RatMin(RatInt(1),
                           RatDiv(RatSub(effective_complexity, RatInt(100000)),
                                  RatInt(900000))))

\* mutant of AnalyzeCombinatorialComplexity: only an empty course list counts
\* as missing data
AnalyzeCombinatorialComplexityCoursesOnly(courses, faculty, rooms, time_slots, batches) ==
    IF courses = 0 THEN RatInt(10)
    ELSE LogarithmicScaling(
             EffectiveComplexity(courses, faculty, rooms, time_slots, batches))

\* _analyze_combinatorial_complexity on the five sizes
AnalyzeCombinatorialComplexity(courses, faculty, rooms, time_slots, batches) ==
    IF 0 \in {courses, faculty, rooms, time_slots, batches} THEN RatInt(10)
    ELSE LogarithmicScaling(
             EffectiveComplexity(courses, faculty, rooms, time_slots, batches))

\* _analyze_constraint_complexity on the two list lengths
AnalyzeConstraintComplexity(hard_constraints, soft_constraints) ==
    LET total_constraints == hard_constraints + soft_constraints
        hard_impact == hard_constraints * 2
        soft_impact == soft_constraints * 1
        constraint_score == Rat(hard_impact + soft_impact, 5)
        interdependency_factor ==
            IF total_constraints > 5
            THEN RatAdd(RatInt(1), Rat(total_constraints - 5, 10))
            ELSE RatInt(1)
        final_score == RatMul(constraint_score, interdependency_factor)
    IN  IF total_constraints = 0 THEN RatInt(1)
        ELSE RatMin(RatInt(10), final_score)

\* _analyze_resource_competition on the four list lengths
AnalyzeResourceCompetition(course_count, faculty_count, room_count, time_slot_count) ==
    IF 0 \in {course_count, faculty_count, room_count, time_slot_count}
    THEN RatInt(8)
    ELSE
      LET faculty_ratio == Rat(course_count, faculty_count)
          faculty_competition ==
              RatMin(RatInt(10),
                     RatMul(RatSub(faculty_ratio, RatInt(1)), RatInt(2)))
          room_capacity == Rat(room_count * time_slot_count * 7, 10)
          room_competition ==
              RatMin(RatInt(10),
                     RatMul(RatDiv(RatInt(course_count), room_capacity), RatInt(5)))
      IN  RatAdd(RatMul(faculty_competition, Rat(6, 10)),
                 RatMul(room_competition, Rat(4, 10)))

\* _analyze_schedule_density on the three list lengths
AnalyzeScheduleDensity(courses, time_slots, batches) ==
    IF 0 \in {courses, time_slots, batches} THEN RatInt(5)
    ELSE
      LET sessions_per_course == 3
          total_sessions_required == courses * batches * sessions_per_course
          available_slots_per_week == time_slots * 5
          density_ratio == Rat(total_sessions_required, available_slots_per_week)
      IN  RatMin(RatInt(10), RatMul(density_ratio, RatInt(10)))

\* _classify_difficulty
ClassifyDifficulty(overall_score) ==
    IF RatLeq(overall_score, RatInt(3)) THEN "SIMPLE"
    ELSE IF RatLeq(overall_score, RatInt(5)) THEN "MODERATE"
    ELSE IF RatLeq(overall_score, Rat(75, 10)) THEN "COMPLEX"
    ELSE "EXTREME"

\* mutant of OverallScore: the four sub-scores weigh the same
OverallScoreEqualWeights(combinatorial, constraint, competition, density) ==
    RatMul(RatAdd(RatAdd(combinatorial, constraint),
                  RatAdd(competition, density)), Rat(1, 4))

\* the weighted average of lines 149-154
OverallScore(combinatorial, constraint, competition, density) ==
    RatAdd(RatAdd(RatMul(combinatorial, Rat(35, 100)),
                  RatMul(constraint, Rat(30, 100))),
           RatAdd(RatMul(competition, Rat(20, 100)),
                  RatMul(density, Rat(15, 100))))

\* mutant of SafeDefaultProfile: the failure leaves the sub-scores at the
\* worst case
WorstCaseProfile ==
    [combinatorial_score |-> RatInt(10),
     constraint_complexity |-> RatInt(10),
     resource_competition |-> RatInt(10),
     schedule_density |-> RatInt(10),
     overall_complexity |-> RatInt(10),
     difficulty_level |-> "EXTREME",
     processing_metrics |-> EmptyDict]

\* the profile the except branch of analyze_complexity returns
SafeDefaultProfile ==
    [combinatorial_score |-> RatInt(5),
     constraint_complexity |-> RatInt(5),
     resource_competition |-> RatInt(5),
     schedule_density |-> RatInt(5),
     overall_complexity |-> RatInt(5),
     difficulty_level |-> "MODERATE",
     processing_metrics |-> EmptyDict]

\* the try body of analyze_complexity on a matrix whose collections are sized
ProfileOf(m) ==
    LET combinatorial_score ==
            AnalyzeCombinatorialComplexity(m.courses, m.faculty, m.rooms,
                                           m.time_slots, m.batches)
        constraint_score ==
            AnalyzeConstraintComplexity(m.hard_constraints, m.soft_constraints)
        competition_score ==
            AnalyzeResourceCompetition(m.courses, m.faculty, m.rooms, m.time_slots)
        density_score == AnalyzeScheduleDensity(m.courses, m.time_slots, m.batches)
        overall_score == OverallScore(combinatorial_score, constraint_score,
                                      competition_score, density_score)
    IN  [combinatorial_score |-> combinatorial_score,
         constraint_complexity |-> constraint_score,
         resource_competition |-> competition_score,
         schedule_density |-> density_score,
         overall_complexity |-> overall_score,
         difficulty_level |-> ClassifyDifficulty(overall_score),
         processing_metrics |-> m]

\* analyze_complexity: the try body, and the safe default when len() raises
AnalyzeComplexityOp(m) ==
    IF LenRaises(m) THEN SafeDefaultProfile ELSE ProfileOf(m)

(***************************************************************************)
(* Profiling specification: analyze_complexity applied to every matrix     *)
(* whose collection sizes are drawn from bounded sets, to the scenario of  *)
(* the specification's section 8, and to matrices one of whose collections *)
(* has no length.                                                          *)
(***************************************************************************)
Matrix(c, f, r, t, b, h, s) ==
    [courses |-> c, faculty |-> f, rooms |-> r, time_slots |-> t,
     batches |-> b, hard_constraints |-> h, soft_constraints |-> s]

LargeCount == 25 * LargeFactor

CountValues == (0..MaxCount) \cup {LargeCount}

SizedMatrices ==
    {Matrix(c, f, r, t, b, h, s) :
        c \in CountValues, f \in CountValues, r \in CountValues,
        t \in CountValues, b \in CountValues,
        h \in 0..MaxHard, s \in 0..MaxSoft}

\* 3 courses, 3 faculty, 2 rooms, 4 time slots, 1 batch, no constraints
ScenarioMatrix == Matrix(3, 3, 2, 4, 1, 0, 0)

UnsizedMatrices ==
    {[m EXCEPT ![f] = NotSized] :
        m \in {Matrix(c, 1, 1, t, b, 0, s) : c, t, b, s \in 0..1},
        f \in MatrixFields}

Matrices == SizedMatrices \cup {ScenarioMatrix} \cup UnsizedMatrices

InitProfile ==
    /\ optimization_matrix \in Matrices
    /\ complexity_profile = NoProfile
    /\ solver_selection = NoSelection
    /\ EngineIdle
    /\ stage = "matrix_loaded"
    /\ data_matrix = EmptyData
    /\ solver_output = <<>>
    /\ violations = <<>>
    /\ validation_result = NoResult
    /\ threshold_result = NoThresholds
    /\ faculty_assignments = EmptyDict
    /\ room_assignments = EmptyDict
    /\ batch_assignments = EmptyDict
    /\ first_run = NoRun
    /\ NoFiles

\* ComplexityAnalyzer.analyze_complexity(optimization_matrix)
AnalyzeComplexity ==
    /\ stage = "matrix_loaded"
    /\ complexity_profile' = AnalyzeComplexityOp(optimization_matrix)
    /\ stage' = "profiled"
    /\ UNCHANGED <<optimization_matrix, solver_selection, engine_vars>>
    /\ UNCHANGED <<validator_vars, format_vars>>

NextProfile == AnalyzeComplexity

SpecProfile == InitProfile /\ [][NextProfile]_vars

(***************************************************************************)
(* Properties of the complexity profile.                                   *)
(***************************************************************************)
Profiled == stage = "profiled"

\* 1 <= x <= 10
WithinOneAndTen(x) == RatLeq(RatInt(1), x) /\ RatLeq(x, RatInt(10))

CollectionFields == {"courses", "faculty", "rooms", "time_slots", "batches"}

(***************************************************************************)
(* C12.  Every profile analyze_complexity returns has each of its four     *)
(* sub-scores (combinatorial, constraint complexity, resource competition, *)
(* schedule density) within [1, 10], whatever the sizes of the             *)
(* collections.                                                            *)
(***************************************************************************)
C12_SubScoresWithinOneAndTen ==
    Profiled =>
        /\ WithinOneAndTen(complexity_profile.combinatorial_score)
        /\ WithinOneAndTen(complexity_profile.constraint_complexity)
        /\ WithinOneAndTen(complexity_profile.resource_competition)
        /\ WithinOneAndTen(complexity_profile.schedule_density)

(***************************************************************************)
(* C13.  On a matrix with one of the five collections empty the            *)
(* combinatorial score is exactly 10; on a matrix with all five non-empty  *)
(* and an effective decision space below 100, such as 3 courses, 3         *)
(* faculty, 2 rooms, 4 time slots and 1 batch, it lies in [1, 3].          *)
(***************************************************************************)
\* courses x timeSlots x batches, scaled by min(1, faculty/courses) and by
\* min(1, rooms / (0.3 x courses)), as section 4.1 of the specification has it
DecisionSpace(m) ==
    RatMul(RatInt(m.courses * m.time_slots * m.batches),
           RatMul(RatMin(RatInt(1), Rat(m.faculty, m.courses)),
                  RatMin(RatInt(1), Rat(10 * m.rooms, 3 * m.courses))))

SomeCollectionEmpty(m) == \E f \in CollectionFields : m[f] = 0

C13_CombinatorialTenOrFirstBand ==
    (Profiled /\ ~LenRaises(optimization_matrix)) =>
        LET m == optimization_matrix
            score == complexity_profile.combinatorial_score
        IN  /\ SomeCollectionEmpty(m) => score = RatInt(10)
            /\ (~SomeCollectionEmpty(m) /\ RatLt(DecisionSpace(m), RatInt(100)))
                   => (RatLeq(RatInt(1), score) /\ RatLeq(score, RatInt(3)))
            /\ m = ScenarioMatrix
                   => (RatLeq(RatInt(1), score) /\ RatLeq(score, RatInt(3)))

\* the scenario: decision space 12, score 1 + 12/100 * 2 = 1.24
C13_Witness ==
    /\ Profiled
    /\ optimization_matrix = ScenarioMatrix
    /\ DecisionSpace(optimization_matrix) = RatInt(12)
    /\ complexity_profile.combinatorial_score = Rat(124, 100)

(***************************************************************************)
(* C14.  Every profile, from the normal path or the fallback, has          *)
(* overall = 0.35 combinatorial + 0.30 constraint + 0.20 competition +     *)
(* 0.15 density, and its difficulty level is SIMPLE iff overall <= 3.0,    *)
(* MODERATE iff 3.0 < overall <= 5.0, COMPLEX iff 5.0 < overall <= 7.5,    *)
(* EXTREME iff overall > 7.5.                                              *)
(***************************************************************************)
\* (35 a + 30 b + 20 c + 15 d) / 100
WeightedCombination(a, b, c, d) ==
    RatDiv(RatAdd(RatAdd(RatMul(RatInt(35), a), RatMul(RatInt(30), b)),
                  RatAdd(RatMul(RatInt(20), c), RatMul(RatInt(15), d))),
           RatInt(100))

C14_OverallAndDifficultyConsistent ==
    Profiled =>
        LET p == complexity_profile
            overall == p.overall_complexity
        IN  /\ overall = WeightedCombination(p.combinatorial_score,
                                             p.constraint_complexity,
                                             p.resource_competition,
                                             p.schedule_density)
            /\ p.difficulty_level \in {"SIMPLE", "MODERATE", "COMPLEX", "EXTREME"}
            /\ p.difficulty_level = "SIMPLE" <=> RatLeq(overall, RatInt(3))
            /\ p.difficulty_level = "MODERATE"
                   <=> (RatLt(RatInt(3), overall) /\ RatLeq(overall, RatInt(5)))
            /\ p.difficulty_level = "COMPLEX"
                   <=> (RatLt(RatInt(5), overall) /\ RatLeq(overall, Rat(75, 10)))
            /\ p.difficulty_level = "EXTREME" <=> RatLt(Rat(75, 10), overall)

\* a profile of the normal path above 7.5: every collection empty and 14 hard
\* constraints give 10, 10, 8, 5 and overall 8.85
C14_Witness ==
    /\ Profiled
    /\ optimization_matrix = Matrix(0, 0, 0, 0, 0, 14, 0)
    /\ complexity_profile.constraint_complexity = RatInt(10)
    /\ complexity_profile.overall_complexity = Rat(885, 100)
    /\ complexity_profile.difficulty_level = "EXTREME"

(***************************************************************************)
(* C15.  analyze_complexity always returns a profile, and when a step of   *)
(* the profiling fails the profile is the neutral one: the four sub-scores *)
(* and overall 5.0, difficulty MODERATE.                                   *)
(***************************************************************************)
ProfileFields ==
    {"combinatorial_score", "constraint_complexity", "resource_competition",
     "schedule_density", "overall_complexity", "difficulty_level",
     "processing_metrics"}

C15_FailureGivesNeutralProfile ==
    Profiled =>
        /\ DOMAIN complexity_profile = ProfileFields
        /\ LenRaises(optimization_matrix) =>
               /\ complexity_profile.combinatorial_score = RatInt(5)
               /\ complexity_profile.constraint_complexity = RatInt(5)
               /\ complexity_profile.resource_competition = RatInt(5)
               /\ complexity_profile.schedule_density = RatInt(5)
               /\ complexity_profile.overall_complexity = RatInt(5)
               /\ complexity_profile.difficulty_level = "MODERATE"

\* the faculty collection has no length
C15_Witness ==
    /\ Profiled
    /\ optimization_matrix.faculty = NotSized
    /\ optimization_matrix.courses = 1
    /\ complexity_profile.overall_complexity = RatInt(5)
    /\ complexity_profile.difficulty_level = "MODERATE"

(***************************************************************************)
(* Solver engine: the solver catalog and SolverSelector.                    *)
(* A SolverInfo is kept as the three fields the selector reads.            *)
(***************************************************************************)
\* GreedyBestFitSolver.get_solver_info
GreedyBestFitSolver ==
    [name |-> "Greedy Best-Fit",
     complexity_preferences |->
         [combinatorial |-> <<1, 4>>, constraint |-> <<1, 3>>,
          competition |-> <<1, 5>>, density |-> <<1, 6>>],
     suitability_threshold |-> 4]

\* IntegerProgrammingSolver.get_solver_info
IntegerProgrammingSolver ==
    [name |-> "Integer Programming",
     complexity_preferences |->
         [combinatorial |-> <<2, 7>>, constraint |-> <<3, 8>>,
          competition |-> <<2, 9>>, density |-> <<2, 8>>],
     suitability_threshold |-> 5]

\* ConstraintPropagationSolver.get_solver_info
ConstraintPropagationSolver ==
    [name |-> "Constraint Propagation",
     complexity_preferences |->
         [combinatorial |-> <<1, 6>>, constraint |-> <<5, 10>>,
          competition |-> <<4, 10>>, density |-> <<1, 7>>],
     suitability_threshold |-> 6]

\* SolverSelector.__init__: the catalog, in declaration order
available_solvers ==
    <<GreedyBestFitSolver, IntegerProgrammingSolver, ConstraintPropagationSolver>>

\* the argument is a ComplexityProfile (not None or another object)
IsProfile(p) == DOMAIN p = ProfileFields

\* the outcome of a scoring step: a value, or an exception raised
Value(x) == [raised |-> FALSE, value |-> x]
Raised == [raised |-> TRUE, value |-> RatInt(0)]

\* _score_dimension; the division raises ZeroDivisionError on a zero divisor
ScoreDimension(actual_value, preferred_range) ==
    LET min_pref == RatInt(preferred_range[1])
        max_pref == RatInt(preferred_range[2])
    IN  IF RatLeq(min_pref, actual_value) /\ RatLeq(actual_value, max_pref)
        THEN Value(RatInt(1))
        ELSE IF RatLt(actual_value, min_pref)
        THEN LET distance == RatSub(min_pref, actual_value)
             IN  IF min_pref = RatInt(0) THEN Raised
                 ELSE Value(RatMax(RatInt(0),
                                   RatSub(RatInt(1), RatDiv(distance, min_pref))))
        ELSE LET distance == RatSub(actual_value, max_pref)
                 max_distance == RatSub(RatInt(10), max_pref)
             IN  IF max_distance = RatInt(0) THEN Raised
                 ELSE Value(RatMax(RatInt(0),
                                   RatSub(RatInt(1), RatDiv(distance, max_distance))))

\* the threshold penalty of lines 642-645
ThresholdPenalty(profile, solver_info) ==
    IF RatLt(RatInt(solver_info.suitability_threshold), profile.overall_complexity)
    THEN RatMul(RatSub(profile.overall_complexity,
                       RatInt(solver_info.suitability_threshold)), Rat(1, 10))
    ELSE RatInt(0)

\* the four dimension scores of lines 637-640
DimensionScores(profile, solver_info) ==
    LET prefs == solver_info.complexity_preferences
    IN  [combinatorial |->
             ScoreDimension(profile.combinatorial_score, prefs.combinatorial),
         constraint |->
             ScoreDimension(profile.constraint_complexity, prefs.constraint),
         competition |->
             ScoreDimension(profile.resource_competition, prefs.competition),
         density |-> ScoreDimension(profile.schedule_density, prefs.density)]

\* mutant of WeightedScore: the threshold penalty is left out
WeightedScoreNoPenalty(d, threshold_penalty) ==
    RatAdd(RatAdd(RatMul(d.combinatorial.value, Rat(35, 100)),
                  RatMul(d.constraint.value, Rat(30, 100))),
           RatAdd(RatMul(d.competition.value, Rat(20, 100)),
                  RatMul(d.density.value, Rat(15, 100))))

\* the weighted score of lines 648-653
WeightedScore(d, threshold_penalty) ==
    RatSub(RatAdd(RatAdd(RatMul(d.combinatorial.value, Rat(35, 100)),
                         RatMul(d.constraint.value, Rat(30, 100))),
                  RatAdd(RatMul(d.competition.value, Rat(20, 100)),
                         RatMul(d.density.value, Rat(15, 100)))),
           threshold_penalty)

\* _calculate_solver_score; reading a field of a non-profile raises
CalculateSolverScore(profile, solver_info) ==
    IF ~IsProfile(profile) THEN Raised
    ELSE LET d == DimensionScores(profile, solver_info)
         IN  IF \E k \in DOMAIN d : d[k].raised THEN Raised
             ELSE Value(RatMax(RatInt(0),
                               RatMin(RatInt(1),
                                      WeightedScore(d, ThresholdPenalty(profile,
                                                                        solver_info)))))

\* the solver_scores dict after the loop of lines 580-583, as the list of its
\* (name, score) items in insertion order
RECURSIVE ScoreItems(_, _)
ScoreItems(profile, catalog) ==
    IF catalog = <<>> THEN <<>>
    ELSE <<[name |-> catalog[1].name,
            score |-> CalculateSolverScore(profile, catalog[1]).value]>>
         \o ScoreItems(profile, Tail(catalog))

\* the try body raises: a scoring step raises, or max() is given an empty dict
SelectionRaises(profile, catalog) ==
    \/ \E i \in 1..Len(catalog) : CalculateSolverScore(profile, catalog[i]).raised
    \/ catalog = <<>>

\* mutant of BestIndex: the last of the highest scores wins
BestIndexLast(items) ==
    CHOOSE i \in 1..Len(items) :
        /\ \A j \in 1..Len(items) : RatLeq(items[j].score, items[i].score)
        /\ \A j \in (i + 1)..Len(items) : items[j].score /= items[i].score

\* max(solver_scores, key=solver_scores.get): the first of the highest scores
BestIndex(items) ==
    CHOOSE i \in 1..Len(items) :
        /\ \A j \in 1..Len(items) : RatLeq(items[j].score, items[i].score)
        /\ \A j \in 1..(i - 1) : items[j].score /= items[i].score

\* mutant of SortedByScore: the items stay in insertion order
UnsortedByScore(items) == items

\* sorted(..., key=score, reverse=True): stable, highest score first
RECURSIVE SortedByScore(_)
SortedByScore(items) ==
    IF items = <<>> THEN <<>>
    ELSE LET i == BestIndex(items)
         IN  <<items[i]>> \o
             SortedByScore([k \in 1..(Len(items) - 1) |->
                               IF k < i THEN items[k] ELSE items[k + 1]])

\* the items of a sequence that satisfy name /= excluded, in order
RECURSIVE ItemsExcept(_, _)
ItemsExcept(items, excluded) ==
    IF items = <<>> THEN <<>>
    ELSE (IF items[1].name = excluded THEN <<>> ELSE <<items[1]>>)
         \o ItemsExcept(Tail(items), excluded)

\* the highest and the lowest of the scores
MaxScore(items) == items[BestIndex(items)].score
MinScore(items) ==
    LET i == CHOOSE k \in 1..Len(items) :
                 \A j \in 1..Len(items) : RatLeq(items[k].score, items[j].score)
    IN  items[i].score

\* mutant of DefaultSelection: the fallback names the last catalog entry
DefaultSelectionLast(profile) ==
    [selected_solver_name |-> "Constraint Propagation",
     selection_score |-> Rat(7, 10),
     all_solver_scores |-> [n \in {"Constraint Propagation"} |-> Rat(7, 10)],
     complexity_profile |-> profile,
     confidence_level |-> Rat(1, 2),
     alternative_solvers |-> <<>>]

\* the selection the except branch of select_best_solver returns
DefaultSelection(profile) ==
    [selected_solver_name |-> "Greedy Best-Fit",
     selection_score |-> Rat(7, 10),
     all_solver_scores |-> [n \in {"Greedy Best-Fit"} |-> Rat(7, 10)],
     complexity_profile |-> profile,
     confidence_level |-> Rat(1, 2),
     alternative_solvers |-> <<>>]

\* mutant of Confidence: the spread is left out
ConfidenceNoSpread(best_score, items) == RatMin(RatInt(1), best_score)

\* lines 596-597
Confidence(best_score, items) ==
    LET score_spread == RatSub(MaxScore(items), MinScore(items))
    IN  RatMin(RatInt(1), RatMul(best_score, RatAdd(RatInt(1), score_spread)))

\* select_best_solver over the catalog self.available_solvers holds; the
\* rationale text is left out
SelectBestSolverOp(profile, catalog) ==
    IF SelectionRaises(profile, catalog) THEN DefaultSelection(profile)
    ELSE LET items == ScoreItems(profile, catalog)
             best == items[BestIndex(items)]
         IN  [selected_solver_name |-> best.name,
              selection_score |-> best.score,
              all_solver_scores |->
                  [n \in {items[i].name : i \in 1..Len(items)} |->
                      LET i == CHOOSE k \in 1..Len(items) :
                                   /\ items[k].name = n
                                   /\ \A j \in (k + 1)..Len(items) : items[j].name /= n
                      IN  items[i].score],
              complexity_profile |-> profile,
              confidence_level |-> Confidence(best.score, items),
              alternative_solvers |-> SortedByScore(ItemsExcept(items, best.name))]

(***************************************************************************)
(* Selection specification: select_best_solver applied to profiles whose   *)
(* sub-scores are drawn from a bounded set, and to an argument that is not *)
(* a profile.                                                              *)
(***************************************************************************)
ScoreValues == {Rat(3 * k, 2) : k \in 0..MaxScoreStep}

Profile(combinatorial, constraint, competition, density) ==
    LET overall == OverallScore(combinatorial, constraint, competition, density)
    IN  [combinatorial_score |-> combinatorial,
         constraint_complexity |-> constraint,
         resource_competition |-> competition,
         schedule_density |-> density,
         overall_complexity |-> overall,
         difficulty_level |-> ClassifyDifficulty(overall),
         processing_metrics |-> EmptyDict]

SelectorProfiles ==
    {Profile(a, b, c, d) : a \in ScoreValues, b \in ScoreValues,
                           c \in ScoreValues, d \in ScoreValues}
    \cup {NoProfile}

InitSelect ==
    /\ optimization_matrix = NoMatrix
    /\ complexity_profile \in SelectorProfiles
    /\ solver_selection = NoSelection
    /\ EngineIdle
    /\ stage = "profiled"
    /\ data_matrix = EmptyData
    /\ solver_output = <<>>
    /\ violations = <<>>
    /\ validation_result = NoResult
    /\ threshold_result = NoThresholds
    /\ faculty_assignments = EmptyDict
    /\ room_assignments = EmptyDict
    /\ batch_assignments = EmptyDict
    /\ first_run = NoRun
    /\ NoFiles

\* SolverSelector.select_best_solver(complexity_profile)
SelectBestSolver ==
    /\ stage = "profiled"
    /\ solver_selection' = SelectBestSolverOp(complexity_profile, available_solvers)
    /\ stage' = "selected"
    /\ UNCHANGED <<optimization_matrix, complexity_profile, engine_vars>>
    /\ UNCHANGED <<validator_vars, format_vars>>

NextSelect == SelectBestSolver

SpecSelect == InitSelect /\ [][NextSelect]_vars

(***************************************************************************)
(* Properties of the selection.                                            *)
(***************************************************************************)
Selected == stage = "selected"

\* the call went through the try body
SelectedNormally ==
    Selected /\ ~SelectionRaises(complexity_profile, available_solvers)

CatalogNames == {available_solvers[i].name : i \in 1..Len(available_solvers)}

WithinZeroAndOne(x) == RatLeq(RatInt(0), x) /\ RatLeq(x, RatInt(1))

(***************************************************************************)
(* C16.  select_best_solver returns a catalog entry whose score is the     *)
(* maximum of the catalog scores, and among several entries with that      *)
(* score the one declared first (Greedy Best-Fit, then Integer             *)
(* Programming, then Constraint Propagation).                              *)
(***************************************************************************)
C16_SelectsFirstMaximum ==
    SelectedNormally =>
        LET scores == solver_selection.all_solver_scores
        IN  /\ DOMAIN scores = CatalogNames
            /\ \E i \in 1..Len(available_solvers) :
                  LET name == available_solvers[i].name
                  IN  /\ solver_selection.selected_solver_name = name
                      /\ solver_selection.selection_score = scores[name]
                      /\ \A j \in 1..Len(available_solvers) :
                             RatLeq(scores[available_solvers[j].name], scores[name])
                      /\ \A j \in 1..(i - 1) :
                             RatLt(scores[available_solvers[j].name], scores[name])

\* Integer Programming and Constraint Propagation both score 1.0, Greedy
\* Best-Fit scores less: the second catalog entry is returned
C16_Witness ==
    /\ SelectedNormally
    /\ complexity_profile = Profile(RatInt(3), RatInt(6), Rat(9, 2), RatInt(3))
    /\ solver_selection.all_solver_scores["Integer Programming"] = RatInt(1)
    /\ solver_selection.all_solver_scores["Constraint Propagation"] = RatInt(1)
    /\ RatLt(solver_selection.all_solver_scores["Greedy Best-Fit"], RatInt(1))
    /\ solver_selection.selected_solver_name = "Integer Programming"

(***************************************************************************)
(* C17.  The confidence is min(1, best * (1 + (max - min))) over the       *)
(* catalog scores and lies in [0, 1]; over a catalog of one solver the     *)
(* selection is that solver, with confidence min(1, score) and no          *)
(* alternatives.                                                           *)
(***************************************************************************)
ScoreSet(scores) == {scores[n] : n \in DOMAIN scores}
Highest(S) == CHOOSE x \in S : \A y \in S : RatLeq(y, x)
Lowest(S) == CHOOSE x \in S : \A y \in S : RatLeq(x, y)

C17_ConfidenceFromSpread ==
    /\ Selected => WithinZeroAndOne(solver_selection.confidence_level)
    /\ SelectedNormally =>
           LET S == ScoreSet(solver_selection.all_solver_scores)
               spread == RatSub(Highest(S), Lowest(S))
           IN  /\ solver_selection.confidence_level =
                      RatMin(RatInt(1),
                             RatMul(solver_selection.selection_score,
                                    RatAdd(RatInt(1), spread)))
               /\ \A i \in 1..Len(available_solvers) :
                      LET solver == available_solvers[i]
                          one == SelectBestSolverOp(complexity_profile, <<solver>>)
                      IN  /\ one.selected_solver_name = solver.name
                          /\ one.confidence_level =
                                 RatMin(RatInt(1),
                                        solver_selection.all_solver_scores[solver.name])
                          /\ one.confidence_level = RatMin(RatInt(1), one.selection_score)
                          /\ one.alternative_solvers = <<>>

\* scores 533/1680, 0.7 and 0.7: confidence 0.7 * (1 + 643/1680) = 2323/2400;
\* alone in the catalog, Integer Programming has confidence 0.7
C17_Witness ==
    /\ SelectedNormally
    /\ complexity_profile = Profile(RatInt(6), RatInt(6), RatInt(0), RatInt(9))
    /\ solver_selection.selection_score = Rat(7, 10)
    /\ solver_selection.confidence_level = Rat(2323, 2400)
    /\ SelectBestSolverOp(complexity_profile,
                          <<IntegerProgrammingSolver>>).confidence_level = Rat(7, 10)
    /\ SelectBestSolverOp(complexity_profile,
                          <<IntegerProgrammingSolver>>).alternative_solvers = <<>>

(***************************************************************************)
(* C18.  select_best_solver always returns a selection, and when scoring   *)
(* or selection fails it is the selection naming the first catalog entry   *)
(* with score 0.7 and confidence 0.5.                                      *)
(***************************************************************************)
SelectionFields ==
    {"selected_solver_name", "selection_score", "all_solver_scores",
     "complexity_profile", "confidence_level", "alternative_solvers"}

C18_FailureGivesDefaultSelection ==
    Selected =>
        /\ DOMAIN solver_selection = SelectionFields
        /\ SelectionRaises(complexity_profile, available_solvers) =>
               /\ solver_selection.selected_solver_name = available_solvers[1].name
               /\ solver_selection.selection_score = Rat(7, 10)
               /\ solver_selection.confidence_level = Rat(1, 2)

\* a constraint score of 10.5 lies above Constraint Propagation's interval
\* [5, 10], whose headroom to 10 is zero
C18_Witness ==
    /\ Selected
    /\ IsProfile(complexity_profile)
    /\ complexity_profile.constraint_complexity = Rat(21, 2)
    /\ ScoreDimension(complexity_profile.constraint_complexity,
                      ConstraintPropagationSolver.complexity_preferences.constraint).raised
    /\ solver_selection.selected_solver_name = "Greedy Best-Fit"
    /\ solver_selection.selection_score = Rat(7, 10)
    /\ solver_selection.confidence_level = Rat(1, 2)

(***************************************************************************)
(* C19.  The match score of a catalog entry is the 0.35/0.30/0.20/0.15     *)
(* weighted sum of its four dimension scores minus                         *)
(* 0.1 * max(0, overall - suitabilityThreshold), clamped to [0, 1].  A     *)
(* dimension score is 1.0 iff the value lies in the closed preferred       *)
(* interval; below it is max(0, 1 - (min - value)/min), above it           *)
(* max(0, 1 - (value - max)/(10 - max)).  Every score of the score map     *)
(* lies in [0, 1].                                                         *)
(***************************************************************************)
InsideInterval(value, range) ==
    RatLeq(RatInt(range[1]), value) /\ RatLeq(value, RatInt(range[2]))

ClaimedDimensionScore(value, range) ==
    LET lo == RatInt(range[1])
        hi == RatInt(range[2])
    IN  IF InsideInterval(value, range) THEN RatInt(1)
        ELSE IF RatLt(value, lo)
        THEN RatMax(RatInt(0), RatSub(RatInt(1), RatDiv(RatSub(lo, value), lo)))
        ELSE RatMax(RatInt(0),
                    RatSub(RatInt(1),
                           RatDiv(RatSub(value, hi), RatSub(RatInt(10), hi))))

ClaimedMatchScore(p, solver) ==
    LET prefs == solver.complexity_preferences
        sum == WeightedCombination(
                   ClaimedDimensionScore(p.combinatorial_score, prefs.combinatorial),
                   ClaimedDimensionScore(p.constraint_complexity, prefs.constraint),
                   ClaimedDimensionScore(p.resource_competition, prefs.competition),
                   ClaimedDimensionScore(p.schedule_density, prefs.density))
        penalty == RatMul(Rat(1, 10),
                          RatMax(RatInt(0),
                                 RatSub(p.overall_complexity,
                                        RatInt(solver.suitability_threshold))))
    IN  RatMax(RatInt(0), RatMin(RatInt(1), RatSub(sum, penalty)))

ProfileValue(p, dimension) ==
    CASE dimension = "combinatorial" -> p.combinatorial_score
      [] dimension = "constraint" -> p.constraint_complexity
      [] dimension = "competition" -> p.resource_competition
      [] dimension = "density" -> p.schedule_density

C19_MatchScoreFormula ==
    /\ Selected =>
           \A n \in DOMAIN solver_selection.all_solver_scores :
               WithinZeroAndOne(solver_selection.all_solver_scores[n])
    /\ SelectedNormally =>
           \A i \in 1..Len(available_solvers) :
               LET solver == available_solvers[i]
                   prefs == solver.complexity_preferences
               IN  /\ solver_selection.all_solver_scores[solver.name] =
                          ClaimedMatchScore(complexity_profile, solver)
                   /\ \A k \in DOMAIN prefs :
                          LET value == ProfileValue(complexity_profile, k)
                              score == ScoreDimension(value, prefs[k]).value
                          IN  /\ score = RatInt(1) <=> InsideInterval(value, prefs[k])
                              /\ score = ClaimedDimensionScore(value, prefs[k])

\* Greedy Best-Fit on (9, 3, 4.5, 7.5): two values inside, two above, overall
\* 6.075 above its threshold 4
C19_Witness ==
    /\ SelectedNormally
    /\ complexity_profile = Profile(RatInt(9), RatInt(3), Rat(9, 2), Rat(15, 2))
    /\ complexity_profile.overall_complexity = Rat(6075, 1000)
    /\ solver_selection.all_solver_scores["Greedy Best-Fit"] = Rat(1067, 2400)

(***************************************************************************)
(* Validation engine: validate_and_format, the entry point that loads the  *)
(* two files, validates, gates and reports.                                *)
(*                                                                         *)
(* A file either loads (it exists, has a supported extension and parses)   *)
(* and then has a content, or it does not.  The content of a solver output *)
(* file is its list of entries; the content of a data matrix file is a     *)
(* dataset or the empty JSON object.  Matrix formatting, the output files  *)
(* and the logging do not bear on the status returned and are left out.    *)
(***************************************************************************)
\* what a loader returns: None, or the content of the file
Loaded(content) == [is_none |-> FALSE, value |-> content]

\* _load_solver_output: every failure is caught and gives None
LoadSolverOutputFile(file) == IF file.loads THEN Loaded(file.content) ELSE None

\* _load_data_matrix: every failure is caught and gives None
LoadDataMatrixFile(file) == IF file.loads THEN Loaded(file.content) ELSE None

\* Python's `not x` on what a loader returned: None, an empty list, an empty
\* dict
Not(x) == x.is_none \/ x.value = <<>> \/ DOMAIN x.value = {}

\* _generate_error_result
GenerateErrorResult(error_message) ==
    [status |-> "FAILED", error_message |-> error_message]

\* mutant of FinalResult: the status does not depend on the gate
FinalResultAlwaysSuccess(result, thresholds) ==
    [status |-> "SUCCESS",
     validation_summary |->
         [overall_status |-> result.overall_status,
          total_violations |-> result.total_violations,
          critical_violations |-> result.critical_violations,
          warning_violations |-> result.warning_violations,
          quality_score |-> Get(result.quality_metrics, "quality_score")],
     threshold_analysis |-> thresholds]

\* the final_result dict of lines 238-247
FinalResult(result, thresholds) ==
    [status |-> IF thresholds.overall_pass THEN "SUCCESS" ELSE "VALIDATION_FAILED",
     validation_summary |->
         [overall_status |-> result.overall_status,
          total_violations |-> result.total_violations,
          critical_violations |-> result.critical_violations,
          warning_violations |-> result.warning_violations,
          quality_score |-> Get(result.quality_metrics, "quality_score")],
     threshold_analysis |-> thresholds]

\* the files
SolverOutputFiles ==
    {[loads |-> FALSE, content |-> <<>>]}
    \cup {[loads |-> TRUE, content |-> a] : a \in RerunAssignments}

DataMatrixFiles ==
    {[loads |-> FALSE, content |-> EmptyDict]}
    \cup {[loads |-> TRUE, content |-> d] : d \in Datasets \cup {EmptyDict}}

InitFormat ==
    /\ solver_output_file \in SolverOutputFiles
    /\ data_matrix_file \in DataMatrixFiles
    /\ final_result = NoFinalResult
    /\ stage = "files_given"
    /\ data_matrix = EmptyData
    /\ solver_output = <<>>
    /\ violations = <<>>
    /\ validation_result = NoResult
    /\ threshold_result = NoThresholds
    /\ faculty_assignments = EmptyDict
    /\ room_assignments = EmptyDict
    /\ batch_assignments = EmptyDict
    /\ first_run = NoRun
    /\ SolverIdle

\* ValidationEngine.validate_and_format(solver_output_file, data_matrix_file)
ValidateAndFormat ==
    /\ stage = "files_given"
    /\ LET loaded_output == LoadSolverOutputFile(solver_output_file)
           loaded_matrix == LoadDataMatrixFile(data_matrix_file)
       IN  IF Not(loaded_output) \/ Not(loaded_matrix)
           THEN /\ final_result' = GenerateErrorResult("Failed to load input data")
                /\ UNCHANGED validator_vars
           ELSE LET passes == ValidateSolutionOp(loaded_output.value, loaded_matrix.value)
                    result == passes.result
                    thresholds == AnalyzeThresholdsOp(result)
                IN  /\ solver_output' = loaded_output.value
                    /\ data_matrix' = loaded_matrix.value
                    /\ violations' = passes.violations
                    /\ validation_result' = result
                    /\ faculty_assignments' = passes.bookings.faculty_assignments
                    /\ room_assignments' = passes.bookings.room_assignments
                    /\ batch_assignments' = passes.bookings.batch_assignments
                    /\ threshold_result' = thresholds
                    /\ final_result' = FinalResult(result, thresholds)
                    /\ UNCHANGED first_run
    /\ stage' = "finished"
    /\ UNCHANGED <<solver_output_file, data_matrix_file>>
    /\ UNCHANGED solver_vars

NextFormat == ValidateAndFormat

SpecFormat == InitFormat /\ [][NextFormat]_vars

(***************************************************************************)
(* C20.  validate_and_format returns the structured FAILED result only     *)
(* when the solver output or the data matrix could not be loaded at all;   *)
(* every input that loads, an assignment with zero entries included, is    *)
(* validated and gated and ends with status SUCCESS or VALIDATION_FAILED,  *)
(* its defects appearing only as violations of the report.                 *)
(***************************************************************************)
Finished == stage = "finished"

BothFilesLoad == solver_output_file.loads /\ data_matrix_file.loads

C20_FailedOnlyWhenNotLoaded ==
    Finished =>
        /\ final_result.status = "FAILED" <=> ~BothFilesLoad
        /\ BothFilesLoad =>
               /\ final_result.status \in {"SUCCESS", "VALIDATION_FAILED"}
               /\ final_result.validation_summary.total_violations = Len(violations)

(***************************************************************************)
(* Reference specification: _validate_solution on assignments whose        *)
(* entries carry unknown ids ("CX", "FX", "RX", "TX", "BX") and empty ids  *)
(* ("" is also what entry.get(key, '') gives for an absent key).           *)
(***************************************************************************)
MaxRefEntries == 2

BaseEntry == Entry("C1", "F1", "R1", "T1", "B1")

IdFields == {"course_id", "faculty_id", "room_id", "time_slot_id", "batch_id"}

UnknownId ==
    [course_id |-> "CX", faculty_id |-> "FX", room_id |-> "RX",
     time_slot_id |-> "TX", batch_id |-> "BX"]

RefEntries ==
    {BaseEntry, Entry("C2", "F1", "R1", "T1", "B1"), Entry("C1", "F1", "R2", "T1", "B2"),
     Entry("CX", "FX", "RX", "TX", "BX"), Entry("C1", "", "", "", ""),
     Entry("C2", "", "", "", ""), Entry("C1", "", "RX", "T1", "B1")}
        \cup {[BaseEntry EXCEPT ![f] = UnknownId[f]] : f \in IdFields}
        \cup {[BaseEntry EXCEPT ![f] = ""] : f \in IdFields}

RefAssignments == SeqsUpTo(RefEntries, MaxRefEntries)

InitRefs ==
    /\ data_matrix \in {FullData, PartialData}
    /\ solver_output \in RefAssignments
    /\ violations = <<>>
    /\ validation_result = NoResult
    /\ threshold_result = NoThresholds
    /\ faculty_assignments = EmptyDict
    /\ room_assignments = EmptyDict
    /\ batch_assignments = EmptyDict
    /\ stage = "loaded"
    /\ first_run = NoRun
    /\ SolverIdle
    /\ NoFiles

NextRefs == ValidateSolution \/ AnalyzeThresholds

SpecRefs == InitRefs /\ [][NextRefs]_vars

(***************************************************************************)
(* Properties of the reference and conflict checks.                        *)
(***************************************************************************)
RefIds(field) == {e[field] : e \in RefEntries}

\* the (entity, slot) pairs a booking map holds
BookedPairs(assignments) ==
    UNION {{<<id, assignments[id][k]>> : k \in 1..Len(assignments[id])} :
              id \in DOMAIN assignments}

\* the entries (by position) all five of whose ids resolve
FullyResolved == {i \in 1..Len(solver_output) : AllIdsResolve(solver_output[i], data_matrix)}

\* the (entity, slot) pairs of the entries at the positions
PairsOf(positions, field) ==
    {<<solver_output[i][field], solver_output[i].time_slot_id>> : i \in positions}

\* the conflict violations of the kind count, for every (entity, slot) pair,
\* the entries at the positions beyond the first that carry the pair
ConflictsOnlyAmong(positions, field, kind) ==
    \A id \in RefIds(field), t \in RefIds("time_slot_id") :
        ConflictCount(violations, kind, id, t) =
            Max(0, Cardinality(Carrying(solver_output, field, id, t) \cap positions) - 1)

\* C21: the conflict check is performed for an entry only when all five of
\* its ids (course, faculty, room, time slot, batch) resolve: an entry with an
\* unresolved id, the course id included, produces no FACULTY_DOUBLE_BOOKING,
\* ROOM_DOUBLE_BOOKING or BATCH_TIME_CONFLICT violation and records no
\* booking, so it cannot cause a later entry to be flagged.
C21_ConflictCheckNeedsFiveIds ==
    Validated =>
        /\ BookedPairs(faculty_assignments) = PairsOf(FullyResolved, "faculty_id")
        /\ BookedPairs(room_assignments) = PairsOf(FullyResolved, "room_id")
        /\ BookedPairs(batch_assignments) = PairsOf(FullyResolved, "batch_id")
        /\ ConflictsOnlyAmong(FullyResolved, "faculty_id", "FACULTY_DOUBLE_BOOKING")
        /\ ConflictsOnlyAmong(FullyResolved, "room_id", "ROOM_DOUBLE_BOOKING")
        /\ ConflictsOnlyAmong(FullyResolved, "batch_id", "BATCH_TIME_CONFLICT")

\* number of violations of the kind that name the entity
KindCount(vs, kind, id) ==
    Cardinality({i \in 1..Len(vs) : vs[i].violation_type = kind /\ vs[i].entity_id = id})

\* the entries (by position) in the room whose batch resolves and is larger
\* than the room
Overfull(room_id) ==
    {i \in 1..Len(solver_output) :
        /\ solver_output[i].room_id = room_id
        /\ solver_output[i].batch_id \in batch_lookup(data_matrix)
        /\ data_matrix.batches[solver_output[i].batch_id] > data_matrix.rooms[room_id]}

\* C22: every entry whose room id and batch id both resolve gets a
\* ROOM_CAPACITY_EXCEEDED violation iff the batch's size is strictly greater
\* than the room's capacity, whether or not its course, faculty and time-slot
\* ids resolve: each room is named by as many such violations as it has
\* entries with a larger batch, and no other entity is named by one.
C22_CapacityCheckedWhenRoomAndBatchResolve ==
    Validated =>
        /\ \A r \in room_lookup(data_matrix) :
               KindCount(violations, "ROOM_CAPACITY_EXCEEDED", r) = Cardinality(Overfull(r))
        /\ \A i \in 1..Len(violations) :
               violations[i].violation_type = "ROOM_CAPACITY_EXCEEDED"
                   => violations[i].entity_id \in room_lookup(data_matrix)

EntityTypeOf ==
    [course_id |-> "COURSE", faculty_id |-> "FACULTY", room_id |-> "ROOM",
     time_slot_id |-> "TIME_SLOT", batch_id |-> "BATCH"]

\* the collection of the dataset in which the id of the field is looked up
LookupOf(field, dm) ==
    CASE field = "course_id" -> course_lookup(dm)
      [] field = "faculty_id" -> faculty_lookup(dm)
      [] field = "room_id" -> room_lookup(dm)
      [] field = "time_slot_id" -> time_slot_lookup(dm)
      [] field = "batch_id" -> batch_lookup(dm)

\* the id is given and has no record
Unresolved(entry, field, dm) ==
    entry[field] /= "" /\ entry[field] \notin LookupOf(field, dm)

UnresolvedFields(entry, dm) == {f \in IdFields : Unresolved(entry, f, dm)}

\* the violations (by position) recorded for the entry at the index
ViolationsAt(vs, idx) == {k \in 1..Len(vs) : vs[k].entry_index = idx}

\* C23: for every entry and each of its five ids, an id that is non-empty and
\* absent from its collection yields exactly one CRITICAL violation naming
\* that id, whatever the other ids of the entry are (n unresolved non-empty
\* ids give n referential violations for the entry); an id that resolves
\* yields none.
C23_OneViolationPerUnresolvedId ==
    Validated =>
        \A i \in 1..Len(solver_output) :
            LET entry == solver_output[i]
                at == ViolationsAt(violations, i - 1)
            IN  /\ Cardinality(at) = Cardinality(UnresolvedFields(entry, data_matrix))
                /\ \A f \in IdFields :
                       LET hits == {k \in at : violations[k].entity_type = EntityTypeOf[f]}
                       IN  IF Unresolved(entry, f, data_matrix)
                           THEN /\ Cardinality(hits) = 1
                                /\ \A k \in hits :
                                       /\ violations[k].entity_id = entry[f]
                                       /\ violations[k].severity = "CRITICAL"
                                       /\ violations[k].is_critical
                           ELSE hits = {}

\* an entry none of whose five ids has a record: five violations for it, next
\* to an entry all of whose ids resolve: none
C23_Witness ==
    /\ stage = "validated"
    /\ data_matrix = FullData
    /\ solver_output = <<Entry("CX", "FX", "RX", "TX", "BX"), BaseEntry>>
    /\ Cardinality(ViolationsAt(violations, 0)) = 5
    /\ ViolationsAt(violations, 1) = {}

\* the violations (by position) of the kind
OfKind(vs, kind) == {k \in 1..Len(vs) : vs[k].violation_type = kind}

\* as many violations of the kind as entries whose id in the field is given
\* and has no record, each with the weight of the kind in the table
KindMatchesField(kind, field) ==
    /\ Cardinality(OfKind(violations, kind)) =
           Cardinality({i \in 1..Len(solver_output) :
                           Unresolved(solver_output[i], field, data_matrix)})
    /\ \A k \in OfKind(violations, kind) :
           violations[k].weight = violation_definitions[kind].weight

\* C24: the kind of each referential violation matches the id that is
\* missing: the number of INVALID_FACULTY_REFERENCE violations is the number
\* of entries whose faculty id is non-empty and unknown, likewise
\* INVALID_ROOM_REFERENCE for room ids and INVALID_TIME_SLOT_REFERENCE for
\* time-slot ids, each with the weight of its kind in the table.
C24_ReferenceKindMatchesId ==
    Validated =>
        /\ KindMatchesField("INVALID_FACULTY_REFERENCE", "faculty_id")
        /\ KindMatchesField("INVALID_ROOM_REFERENCE", "room_id")
        /\ KindMatchesField("INVALID_TIME_SLOT_REFERENCE", "time_slot_id")

\* the four ids the conflict block depends on
BookingFields == IdFields \ {"course_id"}

HasEmptyId(entry) == \E f \in BookingFields : entry[f] = ""

\* the entries (by position) that give all four ids
Complete == {i \in 1..Len(solver_output) : ~HasEmptyId(solver_output[i])}

\* no violation of the kind beyond those the entries at the positions explain
ConflictsAtMostAmong(positions, field, kind) ==
    \A id \in RefIds(field), t \in RefIds("time_slot_id") :
        ConflictCount(violations, kind, id, t) <=
            Max(0, Cardinality(Carrying(solver_output, field, id, t) \cap positions) - 1)

\* an empty id is not reported, and an entry with an empty faculty, room,
\* time-slot or batch id is neither flagged nor booked
EmptyIdsTakeNoPart ==
    /\ \A i \in 1..Len(solver_output), f \in BookingFields :
           solver_output[i][f] = ""
               => \A k \in ViolationsAt(violations, i - 1) :
                      violations[k].entity_type /= EntityTypeOf[f]
    /\ BookedPairs(faculty_assignments) \subseteq PairsOf(Complete, "faculty_id")
    /\ BookedPairs(room_assignments) \subseteq PairsOf(Complete, "room_id")
    /\ BookedPairs(batch_assignments) \subseteq PairsOf(Complete, "batch_id")
    /\ ConflictsAtMostAmong(Complete, "faculty_id", "FACULTY_DOUBLE_BOOKING")
    /\ ConflictsAtMostAmong(Complete, "room_id", "ROOM_DOUBLE_BOOKING")
    /\ ConflictsAtMostAmong(Complete, "batch_id", "BATCH_TIME_CONFLICT")
    /\ \A r \in RefIds("room_id") :
           KindCount(violations, "ROOM_CAPACITY_EXCEEDED", r) <=
               Cardinality({i \in Complete : solver_output[i].room_id = r})

\* every entry of the assignment has an empty id, and every course of the
\* dataset is named by some entry
OnlyEmptyIdEntriesNamingEveryCourse ==
    /\ \A i \in 1..Len(solver_output) : HasEmptyId(solver_output[i])
    /\ course_lookup(data_matrix) \subseteq scheduled_courses(solver_output)

CleanReport ==
    /\ violations = <<>>
    /\ validation_result.total_violations = 0
    /\ validation_result.overall_status = "PASS"

\* C29 as stated: an entry whose faculty, room, time-slot or batch id is empty
\* produces no referential violation for that id and takes no part in the
\* conflict and capacity checks, so an assignment consisting only of such
\* entries that names every course of the dataset validates with zero
\* violations and status PASS.
C29_EmptyIdEntriesValidateClean ==
    Validated =>
        /\ EmptyIdsTakeNoPart
        /\ OnlyEmptyIdEntriesNamingEveryCourse => CleanReport

\* C29 (amended): an entry whose faculty, room, time-slot or batch id is empty
\* produces no referential violation for that id and takes no part in the
\* conflict and capacity checks, so an assignment consisting only of such
\* entries, each of whose non-empty ids has a record, that names every course
\* of the dataset validates with zero violations and status PASS.
C29_EmptyIdEntriesWithKnownIdsValidateClean ==
    Validated =>
        /\ EmptyIdsTakeNoPart
        /\ (/\ OnlyEmptyIdEntriesNamingEveryCourse
            /\ \A i \in 1..Len(solver_output) :
                   UnresolvedFields(solver_output[i], data_matrix) = {})
               => CleanReport

\* both courses of the dataset named by entries that give no other id, and by
\* an entry that lacks only the faculty while its batch is larger than its
\* room: no violation
C29_Witness ==
    /\ stage = "validated"
    /\ data_matrix = FullData
    /\ solver_output = <<Entry("C2", "", "", "", ""), Entry("C1", "", "R1", "T1", "B1")>>
    /\ CleanReport

(***************************************************************************)
(* C26.  The alternatives of a selection are the catalog entries other     *)
(* than the selected one, each exactly once, in order of non-increasing    *)
(* score, and together with the selected entry they cover exactly the keys *)
(* of the score map.  (After the fallback the score map holds the default  *)
(* entry only, and the list of alternatives is empty.)                     *)
(***************************************************************************)
AlternativeNames ==
    {solver_selection.alternative_solvers[i].name :
        i \in 1..Len(solver_selection.alternative_solvers)}

C26_AlternativesAreTheOthersByScore ==
    Selected =>
        LET alts == solver_selection.alternative_solvers
            scores == solver_selection.all_solver_scores
            chosen == solver_selection.selected_solver_name
        IN  /\ \A i, j \in 1..Len(alts) : alts[i].name = alts[j].name => i = j
            /\ chosen \notin AlternativeNames
            /\ AlternativeNames \cup {chosen} = DOMAIN scores
            /\ \A i \in 1..Len(alts) : alts[i].score = scores[alts[i].name]
            /\ \A i, j \in 1..Len(alts) : i < j => RatLeq(alts[j].score, alts[i].score)
            /\ SelectedNormally => AlternativeNames = CatalogNames \ {chosen}

\* Integer Programming is selected; of the other two, Constraint Propagation
\* scores more than Greedy Best-Fit and comes first, against the catalog order
C26_Witness ==
    /\ SelectedNormally
    /\ solver_selection.selected_solver_name = "Integer Programming"
    /\ Len(solver_selection.alternative_solvers) = 2
    /\ solver_selection.alternative_solvers[1].name = "Constraint Propagation"
    /\ solver_selection.alternative_solvers[2].name = "Greedy Best-Fit"
    /\ RatLt(solver_selection.alternative_solvers[2].score,
             solver_selection.alternative_solvers[1].score)

(***************************************************************************)
(* Acceptance specification: validate_and_format on files that hold long   *)
(* assignments, a run of one entry followed by at most one other entry.    *)
(***************************************************************************)
MaxCopies == 28

Repeat(e, n) == [i \in 1..n |-> e]

GateEntries == {Entry("C1", "", "", "", ""), Entry("C2", "", "", "", ""), BaseEntry}

LongAssignments ==
    {Repeat(e, n) \o last :
        e \in GateEntries, n \in 0..MaxCopies,
        last \in {<<>>} \cup {<<x>> : x \in GateEntries}}

InitAccept ==
    /\ solver_output_file \in
           {[loads |-> FALSE, content |-> <<>>]}
           \cup {[loads |-> TRUE, content |-> a] : a \in LongAssignments}
    /\ data_matrix_file \in {[loads |-> TRUE, content |-> d] : d \in {FullData, PartialData}}
    /\ final_result = NoFinalResult
    /\ stage = "files_given"
    /\ data_matrix = EmptyData
    /\ solver_output = <<>>
    /\ violations = <<>>
    /\ validation_result = NoResult
    /\ threshold_result = NoThresholds
    /\ faculty_assignments = EmptyDict
    /\ room_assignments = EmptyDict
    /\ batch_assignments = EmptyDict
    /\ first_run = NoRun
    /\ SolverIdle

NextAccept == ValidateAndFormat

SpecAccept == InitAccept /\ [][NextAccept]_vars

Accepted == Finished /\ final_result.status = "SUCCESS"

\* C27 as stated: whenever the overall decision of the gate is true
\* (validate_and_format returns SUCCESS), the validated report contains no
\* critical violation, that is, its overall status is not FAIL.
C27_AcceptanceImpliesNoCritical ==
    Accepted =>
        /\ validation_result.critical_violations = 0
        /\ validation_result.overall_status /= "FAIL"

\* C27 (amended): whenever the overall decision of the gate is true
\* (validate_and_format returns SUCCESS), the validated assignment has
\* entries and the report contains at most 101 critical violations per 2000
\* entries (a feasibility score that rounds to at least 0.95); its overall
\* status is FAIL exactly when it contains one.
C27_AcceptanceBoundsCritical ==
    Accepted =>
        /\ threshold_result.overall_pass
        /\ Len(solver_output) > 0
        /\ 2000 * validation_result.critical_violations <= 101 * Len(solver_output)
        /\ validation_result.overall_status = "FAIL"
               <=> validation_result.critical_violations > 0

\* an assignment that never schedules course C2 is accepted with the
\* critical MISSING_COURSE_ASSIGNMENT violation in its report
C27_Witness ==
    /\ Accepted
    /\ validation_result.overall_status = "FAIL"
    /\ validation_result.critical_violations = 1
    /\ violations[1].violation_type = "MISSING_COURSE_ASSIGNMENT"

(***************************************************************************)
(* Report specification: _validate_solution on the reference assignments   *)
(* against datasets that include one with a capacity that is not a number, *)
(* followed by _analyze_thresholds; and _analyze_thresholds applied to a   *)
(* report handed to it directly.                                           *)
(***************************************************************************)
\* room R1 of FullData with a capacity that is not a number
MalformedData == [FullData EXCEPT !.rooms = ("R1" :> NotANumber) @@ ("R2" :> 60)]

ReportDatasets == {FullData, PartialData, EmptyData, MalformedData}

\* reports that are not a ValidationResult with numeric scores
MalformedReports ==
    {None,
     [ErrorResult EXCEPT !.quality_metrics = None],
     [NoResult EXCEPT !.quality_metrics =
         [quality_score |-> NotANumber, feasibility_score |-> 1000]],
     [NoResult EXCEPT !.quality_metrics =
         [quality_score |-> 1000, feasibility_score |-> NotANumber]]}

HandedReports == MalformedReports \cup {ErrorResult}

InitReport ==
    /\ \/ /\ stage = "loaded"
          /\ data_matrix \in ReportDatasets
          /\ solver_output \in RefAssignments
          /\ validation_result = NoResult
       \/ /\ stage = "validated"
          /\ data_matrix = EmptyData
          /\ solver_output = <<>>
          /\ validation_result \in HandedReports
    /\ violations = <<>>
    /\ threshold_result = NoThresholds
    /\ faculty_assignments = EmptyDict
    /\ room_assignments = EmptyDict
    /\ batch_assignments = EmptyDict
    /\ first_run = NoRun
    /\ SolverIdle
    /\ NoFiles

NextReport == ValidateSolution \/ AnalyzeThresholds

SpecReport == InitReport /\ [][NextReport]_vars

\* the report of the state was produced by _validate_solution
Produced == Validated /\ first_run.validated

\* C28: every violation produced by validation is critical: for any
\* assignment and dataset the warning count of the report is 0 and its
\* overall status is never WARNING (it is PASS, FAIL or ERROR).
C28_EveryViolationIsCritical ==
    Produced =>
        /\ \A k \in 1..Len(violations) : violations[k].is_critical
        /\ \A k \in 1..Len(validation_result.violation_details) :
               validation_result.violation_details[k].is_critical
        /\ validation_result.warning_violations = 0
        /\ validation_result.critical_violations = validation_result.total_violations
        /\ validation_result.overall_status \in {"PASS", "FAIL", "ERROR"}

\* an unknown room, a batch larger than its room and a course never scheduled:
\* three violations, none of them a warning
C28_Witness ==
    /\ Produced
    /\ data_matrix = FullData
    /\ solver_output = <<Entry("C1", "F1", "RX", "T1", "B1"), BaseEntry>>
    /\ validation_result.total_violations = 3
    /\ validation_result.warning_violations = 0
    /\ validation_result.overall_status = "FAIL"
    /\ \E k \in 1..Len(violations) : violations[k].violation_type = "MISSING_COURSE_ASSIGNMENT"
    /\ \E k \in 1..Len(violations) : violations[k].violation_type = "ROOM_CAPACITY_EXCEEDED"

Analyzed == stage = "analyzed"

\* the gate returned a dict with a decision
Decided == "overall_pass" \in DOMAIN threshold_result

\* C30: a report that is not a real verdict is never accepted: for a report
\* with status ERROR (validation itself failed) and for a report built from
\* an empty assignment the overall decision of the gate is false, and the
\* gate itself never raises: a malformed report yields overall_pass = false
\* together with an error marker.
C30_NoVerdictIsNeverAccepted ==
    Analyzed =>
        /\ Decided
        /\ validation_result \in MalformedReports
               => /\ ~threshold_result.overall_pass
                  /\ "error" \in DOMAIN threshold_result
        /\ validation_result \notin MalformedReports
               => /\ validation_result.overall_status = "ERROR"
                      => ~threshold_result.overall_pass
                  /\ (first_run.validated /\ solver_output = <<>>)
                      => ~threshold_result.overall_pass

\* validation raised on the capacity that is not a number: the ERROR report
\* went through the gate and was rejected on its scores
C30_Witness ==
    /\ Analyzed
    /\ first_run.validated
    /\ data_matrix = MalformedData
    /\ validation_result = ErrorResult
    /\ Decided
    /\ ~threshold_result.overall_pass
    /\ ~threshold_result.quality_score_pass

(***************************************************************************)
(* SolverEngine.solve_timetable, stage by stage: load the matrix, profile  *)
(* it, select a solver, run the solver taken from the registry, write the  *)
(* outputs and return.  The matrix holds the sizes of its collections      *)
(* only, so the outcome of the solver, which depends on their contents, is *)
(* chosen among the outcomes the code can produce for those sizes.         *)
(***************************************************************************)
\* self.available_solvers of SolverEngine: the registry, keyed by name
SolverEngine_available_solvers ==
    ("Greedy Best-Fit" :> GreedyBestFitSolver)
    @@ ("Integer Programming" :> IntegerProgrammingSolver)
    @@ ("Constraint Propagation" :> ConstraintPropagationSolver)

\* mutant of LookupSolver: the name is not consulted
LookupSolverIgnoringName(name) == SolverEngine_available_solvers["Greedy Best-Fit"]

\* self.available_solvers[solver_selection.selected_solver_name]
LookupSolver(name) == SolverEngine_available_solvers[name]

\* SolverEngine._load_optimization_matrix: every failure is caught and gives
\* None
LoadOptimizationMatrixFile(file) == IF file.loads THEN Loaded(file.content) ELSE None

\* SolverEngine._generate_error_result
SolverGenerateErrorResult(error_message) ==
    [status |-> "FAILED", error_message |-> error_message]

\* what solve can end with on a matrix: SUCCESS needs timetable entries, so
\* all five collections non-empty; an iteration over a collection that is
\* not one is caught and gives FAILED, and with such courses the except
\* branch itself can raise (len(courses))
SolveOutcomes(m) ==
    {"FAILED"}
    \cup (IF \A f \in {"courses", "faculty", "rooms", "time_slots", "batches"} :
                m[f] /= NotSized /\ m[f] > 0
          THEN {"SUCCESS"} ELSE {})
    \cup (IF m.courses = NotSized THEN {"RAISED"} ELSE {})

\* the final_result dict of lines 785-814
EngineFinalResult(solution, profile, selection) ==
    [status |-> IF solution.status = "SUCCESS" THEN "SUCCESS" ELSE "PARTIAL_SUCCESS",
     complexity_profile |-> profile,
     solver_selection |->
         [selected_solver |-> selection.selected_solver_name,
          selection_score |-> selection.selection_score,
          confidence_level |-> selection.confidence_level],
     solution_quality |-> [status |-> solution.status]]

\* stage 1, lines 757-760
LoadOptimizationMatrix ==
    /\ stage = "file_given"
    /\ LET loaded == LoadOptimizationMatrixFile(optimization_matrix_file)
       IN  IF Not(loaded)
           THEN /\ engine_result' =
                       SolverGenerateErrorResult("Failed to load optimization matrix")
                /\ stage' = "failed"
                /\ UNCHANGED optimization_matrix
           ELSE /\ optimization_matrix' = loaded.value
                /\ stage' = "matrix_loaded"
                /\ UNCHANGED engine_result
    /\ UNCHANGED <<complexity_profile, solver_selection, optimization_matrix_file,
                   selected_solver, solution_result>>
    /\ UNCHANGED <<validator_vars, format_vars>>

\* stage 4, lines 772-776: the registry lookup and solve; a KeyError of the
\* lookup or an exception out of solve ends the call in the except branch
ExecuteSolver ==
    /\ stage = "selected"
    /\ LET name == solver_selection.selected_solver_name
       IN  IF name \notin DOMAIN SolverEngine_available_solvers
           THEN /\ engine_result' = SolverGenerateErrorResult("Critical failure")
                /\ stage' = "failed"
                /\ UNCHANGED <<selected_solver, solution_result>>
           ELSE /\ selected_solver' = LookupSolver(name)
                /\ \E outcome \in SolveOutcomes(optimization_matrix) :
                       IF outcome = "RAISED"
                       THEN /\ engine_result' =
                                   SolverGenerateErrorResult("Critical failure")
                            /\ stage' = "failed"
                            /\ UNCHANGED solution_result
                       ELSE /\ solution_result' =
                                   [status |-> outcome,
                                    solved_by |-> selected_solver'.name]
                            /\ stage' = "solved"
                            /\ UNCHANGED engine_result
    /\ UNCHANGED <<optimization_matrix, complexity_profile, solver_selection,
                   optimization_matrix_file>>
    /\ UNCHANGED <<validator_vars, format_vars>>

\* stage 5 and the return, lines 778-825
GenerateOutputFiles ==
    /\ stage = "solved"
    /\ engine_result' =
           EngineFinalResult(solution_result, complexity_profile, solver_selection)
    /\ stage' = "exported"
    /\ UNCHANGED <<optimization_matrix, complexity_profile, solver_selection,
                   optimization_matrix_file, selected_solver, solution_result>>
    /\ UNCHANGED <<validator_vars, format_vars>>

(***************************************************************************)
(* Pipeline specification: either solve_timetable is called on a matrix    *)
(* file, or validate_and_format is called on its two files.                *)
(***************************************************************************)
\* collection sizes of the matrices of the pipeline: none, and the powers of
\* two below 2^MaxCount, which keep the exact scores of the selector within
\* 32 bits
PipelineCounts == {0} \cup {2 ^ (k - 1) : k \in 1..MaxCount}

PipelineMatrices ==
    {Matrix(c, f, r, t, b, h, 0) :
        c \in PipelineCounts, f \in PipelineCounts, r \in PipelineCounts,
        t \in PipelineCounts, b \in PipelineCounts, h \in {0, MaxHard}}
    \cup {ScenarioMatrix} \cup UnsizedMatrices

OptimizationMatrixFiles ==
    {[loads |-> FALSE, content |-> EmptyDict], [loads |-> TRUE, content |-> EmptyDict]}
    \cup {[loads |-> TRUE, content |-> m] : m \in PipelineMatrices}

InitPipeline ==
    /\ \/ /\ stage = "file_given"
          /\ optimization_matrix_file \in OptimizationMatrixFiles
          /\ solver_output_file = NoFile
          /\ data_matrix_file = NoFile
       \/ /\ stage = "files_given"
          /\ optimization_matrix_file = NoFile
          /\ solver_output_file \in SolverOutputFiles
          /\ data_matrix_file \in DataMatrixFiles
    /\ optimization_matrix = NoMatrix
    /\ complexity_profile = NoProfile
    /\ solver_selection = NoSelection
    /\ selected_solver = NoSolver
    /\ solution_result = NoSolution
    /\ engine_result = NoFinalResult
    /\ final_result = NoFinalResult
    /\ data_matrix = EmptyData
    /\ solver_output = <<>>
    /\ violations = <<>>
    /\ validation_result = NoResult
    /\ threshold_result = NoThresholds
    /\ faculty_assignments = EmptyDict
    /\ room_assignments = EmptyDict
    /\ batch_assignments = EmptyDict
    /\ first_run = NoRun

NextPipeline ==
    \/ LoadOptimizationMatrix
    \/ AnalyzeComplexity
    \/ SelectBestSolver
    \/ ExecuteSolver
    \/ GenerateOutputFiles
    \/ ValidateAndFormat

SpecPipeline == InitPipeline /\ [][NextPipeline]_vars

(***************************************************************************)
(* C25.  solve_timetable runs its stages in the order load, profile,       *)
(* select, solve, export: no solver runs unless the matrix loaded, the     *)
(* profile given to the selector is the one computed from that matrix, and *)
(* the solver executed is exactly the one named by the returned selection, *)
(* whose name always resolves in the registry of the engine, also when the *)
(* selector fell back to its default.  Likewise validate_and_format        *)
(* evaluates the gate only on the report produced by validating the loaded *)
(* inputs.                                                                 *)
(***************************************************************************)
\* the steps a call can take from one stage to the next
StageOrder ==
    <<stage, stage'>> \in
        {<<"file_given", "matrix_loaded">>, <<"file_given", "failed">>,
         <<"matrix_loaded", "profiled">>,
         <<"profiled", "selected">>,
         <<"selected", "solved">>, <<"selected", "failed">>,
         <<"solved", "exported">>,
         <<"files_given", "finished">>}

MatrixLoaded ==
    /\ optimization_matrix /= NoMatrix
    /\ optimization_matrix_file.loads
    /\ optimization_matrix = optimization_matrix_file.content

ProfileOfMatrix ==
    /\ MatrixLoaded
    /\ complexity_profile /= NoProfile
    /\ complexity_profile = AnalyzeComplexityOp(optimization_matrix)

SelectionOfProfile ==
    /\ ProfileOfMatrix
    /\ solver_selection /= NoSelection
    /\ solver_selection.complexity_profile = complexity_profile
    /\ solver_selection = SelectBestSolverOp(complexity_profile, available_solvers)

SolvedBySelected ==
    /\ SelectionOfProfile
    /\ solver_selection.selected_solver_name \in DOMAIN SolverEngine_available_solvers
    /\ selected_solver =
           SolverEngine_available_solvers[solver_selection.selected_solver_name]
    /\ solution_result.solved_by = solver_selection.selected_solver_name

\* arguments on which select_best_solver falls back to its default
FallbackArguments ==
    {NoProfile, Profile(RatInt(0), RatInt(0), Rat(21, 2), RatInt(0))}

FallbackResolves ==
    \A profile \in FallbackArguments :
        /\ SelectionRaises(profile, available_solvers)
        /\ SelectBestSolverOp(profile, available_solvers).selected_solver_name
               \in DOMAIN SolverEngine_available_solvers

GateOnReportOfLoadedInputs ==
    Finished =>
        IF final_result.status = "FAILED"
        THEN /\ validation_result = NoResult
             /\ threshold_result = NoThresholds
        ELSE /\ solver_output_file.loads /\ data_matrix_file.loads
             /\ solver_output = solver_output_file.content
             /\ data_matrix = data_matrix_file.content
             /\ validation_result = ValidateSolutionOp(solver_output, data_matrix).result
             /\ threshold_result = AnalyzeThresholdsOp(validation_result)
             /\ final_result.threshold_analysis = threshold_result

PipelineConsistent ==
    /\ complexity_profile /= NoProfile => ProfileOfMatrix
    /\ solver_selection /= NoSelection =>
           /\ SelectionOfProfile
           /\ solver_selection.selected_solver_name
                  \in DOMAIN SolverEngine_available_solvers
    /\ selected_solver /= NoSolver =>
           /\ SelectionOfProfile
           /\ selected_solver =
                  SolverEngine_available_solvers[solver_selection.selected_solver_name]
           /\ stage \in {"solved", "exported", "failed"}
    /\ solution_result /= NoSolution =>
           /\ SolvedBySelected
           /\ stage \in {"solved", "exported"}
    /\ stage = "exported" =>
           /\ solution_result /= NoSolution
           /\ engine_result.solver_selection.selected_solver =
                  solution_result.solved_by
           /\ engine_result.complexity_profile = complexity_profile
    /\ FallbackResolves
    /\ GateOnReportOfLoadedInputs

C25_StagesRunInOrder == [](PipelineConsistent) /\ [][StageOrder]_vars

\* a matrix that loaded was profiled, the selector named a solver other
\* than its default, that solver ran and the outputs were written
C25_Witness ==
    /\ stage = "exported"
    /\ SolvedBySelected
    /\ solver_selection.selected_solver_name = "Integer Programming"
    /\ selected_solver = IntegerProgrammingSolver
    /\ solution_result.status = "SUCCESS"
    /\ engine_result.status = "SUCCESS"

====
